---- MODULE Spec2Model ----
(***************************************************************************)
(* Voice_Tory inventory command engine: the product/sale ledger of         *)
(* InventoryDatabase (src/src/backend/db/models.py), its session store,    *)
(* and the HTTP entry points that reach them.                              *)
(*                                                                         *)
(* A collection is a sequence of documents in insertion order (the order   *)
(* of the in-memory dict, the natural order of a MongoDB collection).  A   *)
(* document is a record; an optional field (user_id) is simply absent.     *)
(* The "_id" and "created_at"/"timestamp" fields of product and sale       *)
(* documents are never read by the ledger and are left out.                *)
(***************************************************************************)
EXTENDS Integers, Sequences, FiniteSets, TLC

\* ---------------------------------------------------------------- bounds
MaxQty == 2        \* quantities passed to one call are 1..MaxQty
MaxStock == 3      \* add is not issued once the ledger would hold more units
MaxSales == 1      \* sell is not issued once the sale log has this length
MaxTime == 48      \* the clock stops here (hours)
TickHours == 12    \* the clock advances in steps of this many hours
MaxAdded == 4      \* a counted add is not issued once this many units were added

Milk == <<"m", "i", "l", "k">>      \* product names are character sequences
Names == {Milk}
Users == {"u1", "u2"}
None == "None"                     \* Python None: no user_id / no document
Owners == Users \cup {None}
Procs == {1, 2}
Tokens == {"t1", "t2"}             \* values of secrets.token_urlsafe(32)
Usernames == {"alice", "bob"}

VARIABLES
    backend,     \* "mongo": MongoClient connected; "memory": InMemoryCollection
    products,    \* the products collection
    products0,   \* the products collection when the concurrent calls began
    sales,       \* the sales collection
    last,        \* the last completed ledger call and the result it returned
    pc,          \* per thread: position inside its ledger call
    call,        \* per thread: the arguments of its ledger call
    item,        \* per thread: the document its find_one returned
    res,         \* per thread: the result its call returned
    sessions,    \* the sessions collection
    now,         \* datetime.now(), in hours
    issued,      \* per token: the arguments and time of its create_session
    deleted,     \* tokens passed to a delete_session that found the session
    expiredSeen, \* tokens for which validate_session answered "expired"
    sres,        \* the last completed session-store call and its result
    req,         \* the last HTTP request handled and what its handler did
    users,       \* the users collection
    ures,        \* the last completed user-store call and its result
    ptext,       \* the text handed to parse_inventory_command
    pres,        \* what parse_inventory_command returned for it
    upload,      \* the spreadsheet handed to the bulk import
    ires,        \* what the bulk import returned for it
    nname,       \* the name handed to normalize_product_name
    nres,        \* what normalize_product_name returned for it
    listing,     \* the last get_inventory call and what it returned
    startup,     \* how InventoryDatabase.__init__ ended
    fault,       \* the last call in which a backend access raised
    tally        \* per product name: quantities added, sold and deleted so far

sessionVars == <<sessions, now, issued, deleted, expiredSeen, sres>>
ledgerVars == <<products, products0, sales, last, pc, call, item, res>>
userVars == <<users, ures>>
parserVars == <<ptext, pres>>
importVars == <<upload, ires>>
normVars == <<nname, nres>>
auxVars == <<normVars, listing, startup, fault, tally>>
otherVars == <<userVars, parserVars, importVars, auxVars>>
vars == <<backend, ledgerVars, sessionVars, req, otherVars>>

\* ------------------------------------------------- collection primitives
\* doc.get(key)
Get(doc, key) == IF key \in DOMAIN doc THEN doc[key] ELSE None

\* the inner loop of find_one / update_one / delete_one: every query key
\* must compare equal
Matches(doc, query) == \A key \in DOMAIN query : Get(doc, key) = query[key]

\* index of the first matching document, 0 when there is none
FirstMatch(storage, query) ==
    IF \E i \in 1..Len(storage) : Matches(storage[i], query)
    THEN CHOOSE i \in 1..Len(storage) :
            /\ Matches(storage[i], query)
            /\ \A j \in 1..(i - 1) : ~Matches(storage[j], query)
    ELSE 0

NoDoc == [none |-> TRUE]

find_one(storage, query) ==
    IF FirstMatch(storage, query) = 0 THEN NoDoc
    ELSE storage[FirstMatch(storage, query)]

update_one_Overwrite(storage, query, value) ==
    IF FirstMatch(storage, query) = 0 THEN storage
    ELSE [storage EXCEPT ![FirstMatch(storage, query)].quantity = value]

\* update_one(query, {"$inc": {"quantity": value}})
update_one(storage, query, value) ==
    IF FirstMatch(storage, query) = 0 THEN storage
    ELSE [storage EXCEPT ![FirstMatch(storage, query)].quantity = @ + value]

delete_one_All(storage, query) == <<>>

delete_one(storage, query) ==
    IF FirstMatch(storage, query) = 0 THEN storage
    ELSE [i \in 1..(Len(storage) - 1) |->
            IF i < FirstMatch(storage, query) THEN storage[i] ELSE storage[i + 1]]

\* products.create_index([("name", 1)], unique=True): with MongoDB an insert
\* of a second document with the same name raises DuplicateKeyError; the
\* in-memory collection has no index
InsertRaises(b, storage, document) ==
    /\ b = "mongo"
    /\ \E i \in 1..Len(storage) : storage[i].name = document.name

insert_one(storage, document) == Append(storage, document)

\* the query and the new document of the ledger methods: the user_id key is
\* present only "if user_id"
Query(name, user_id) ==
    IF user_id # None THEN [name |-> name, user_id |-> user_id]
    ELSE [name |-> name]

product_data(name, quantity, user_id) ==
    IF user_id # None THEN [name |-> name, quantity |-> quantity, user_id |-> user_id]
    ELSE [name |-> name, quantity |-> quantity]

sale_data_Remaining(name, quantity, user_id) ==
    IF user_id # None THEN [name |-> name, quantity |-> quantity - 1, user_id |-> user_id]
    ELSE [name |-> name, quantity |-> quantity - 1]

sale_data(name, quantity, user_id) ==
    IF user_id # None THEN [name |-> name, quantity |-> quantity, user_id |-> user_id]
    ELSE [name |-> name, quantity |-> quantity]

\* ------------------------------------------------------- result records
Ok(op, name, quantity, user_id, action) ==
    [op |-> op, name |-> name, quantity |-> quantity, user_id |-> user_id,
     success |-> TRUE, action |-> action, error |-> "", available |-> 0]

Fail(op, name, quantity, user_id, error, available) ==
    [op |-> op, name |-> name, quantity |-> quantity, user_id |-> user_id,
     success |-> FALSE, action |-> "", error |-> error, available |-> available]

NoCall == [op |-> "none", name |-> <<>>, quantity |-> 0, user_id |-> None,
           success |-> FALSE, action |-> "", error |-> "", available |-> 0]

\* ------------------------------------------------------------ session store
SessionTTL == 24                   \* timedelta(hours=24)

NoRequest == [endpoint |-> "none", token |-> None, authed |-> FALSE, user |-> None,
              ledger |-> "none", owner |-> None, status |-> 0, text |-> <<>>]

NoAuth == [op |-> "none", token |-> None, at |-> 0, success |-> FALSE,
           error |-> "", user_id |-> None, username |-> None]

AuthResult(op, token, success, error, user_id, username) ==
    [op |-> op, token |-> token, at |-> now, success |-> success,
     error |-> error, user_id |-> user_id, username |-> username]

\* no user-store call made yet
NoUserCall == [op |-> "none", id |-> <<>>, password |-> "", success |-> FALSE,
               error |-> "", user_id |-> None, username |-> <<>>, email |-> <<>>]

NoUsers ==
    /\ users = <<>>
    /\ ures = NoUserCall

\* DEV_MODE gives the in-memory collections, a connection that answers the
\* ping gives the MongoDB ones
Started == startup = IF backend = "mongo" THEN "connected" ELSE "dev_mode"

NoNormalizing ==
    /\ nname = <<>>
    /\ nres = NoDoc

NoListing == listing = NoDoc

\* no backend access has raised yet
NoFault == fault = NoDoc

\* no ledger call has been counted yet
NoTally == tally = NoDoc

NoParsing ==
    /\ ptext = <<>>
    /\ pres = NoDoc

\* no file part in the request
NoFile == [extension |-> "", columns |-> {}, rows |-> <<>>]

NoUpload ==
    /\ upload = NoFile
    /\ ires = NoDoc

NoSessions ==
    /\ sessions = <<>>
    /\ now = 0
    /\ issued = [t \in Tokens |-> NoDoc]
    /\ deleted = {}
    /\ expiredSeen = {}
    /\ sres = NoAuth
    /\ req = NoRequest

expires_at_Untimed(created) == created

\* expires_at = datetime.now() + timedelta(hours=24)
expires_at(created) == created + SessionTTL

session_data(session_token, user_id, username) ==
    [session_token |-> session_token, user_id |-> user_id, username |-> username,
     created_at |-> now, expires_at |-> expires_at(now), is_active |-> TRUE]

\* create_session: the token is fresh (secrets.token_urlsafe(32))
create_session(user_id, username) ==
    \E session_token \in Tokens :
        /\ issued[session_token] = NoDoc
        /\ sessions' = insert_one(sessions, session_data(session_token, user_id, username))
        /\ issued' = [issued EXCEPT ![session_token] =
                         [user_id |-> user_id, username |-> username, created_at |-> now]]
        /\ sres' = AuthResult("create", session_token, TRUE, "", user_id, username)
        /\ UNCHANGED <<otherVars, req, backend, ledgerVars, now, deleted, expiredSeen>>

Expired_Never(session, t) == FALSE

\* session["expires_at"] < datetime.now()
Expired(session, t) == session.expires_at < t

validate_result(storage, session_token) ==
    LET session == find_one(storage, [session_token |-> session_token]) IN
    IF session = NoDoc
    THEN AuthResult("validate", session_token, FALSE, "Invalid session token", None, None)
    ELSE IF ~session.is_active
    THEN AuthResult("validate", session_token, FALSE, "Session is inactive", None, None)
    ELSE IF Expired(session, now)
    THEN AuthResult("validate", session_token, FALSE, "Session has expired", None, None)
    ELSE AuthResult("validate", session_token, TRUE, "", session.user_id, session.username)

validate_session_Sliding(session_token) ==
    /\ sres' = validate_result(sessions, session_token)
    /\ expiredSeen' = IF sres'.error = "Session has expired"
                      THEN expiredSeen \cup {session_token} ELSE expiredSeen
    /\ sessions' = IF sres'.success
                   THEN [i \in 1..Len(sessions) |->
                            IF sessions[i].session_token = session_token
                            THEN [sessions[i] EXCEPT !.expires_at = expires_at(now)]
                            ELSE sessions[i]]
                   ELSE sessions
    /\ UNCHANGED <<otherVars, req, backend, ledgerVars, now, issued, deleted>>

validate_session(session_token) ==
    /\ sres' = validate_result(sessions, session_token)
    /\ expiredSeen' = IF sres'.error = "Session has expired"
                      THEN expiredSeen \cup {session_token} ELSE expiredSeen
    /\ UNCHANGED <<otherVars, req, backend, ledgerVars, sessions, now, issued, deleted>>

\* delete_session: delete_one, then result.deleted_count; the in-memory
\* delete_one returns a bool, so reading deleted_count raises and the call
\* returns success=False after the session has been removed
delete_session(session_token) ==
    LET found == find_one(sessions, [session_token |-> session_token]) # NoDoc IN
    /\ sessions' = delete_one(sessions, [session_token |-> session_token])
    /\ deleted' = IF found THEN deleted \cup {session_token} ELSE deleted
    /\ sres' = IF backend = "memory"
               THEN AuthResult("delete", session_token, FALSE, "AttributeError", None, None)
               ELSE IF found
               THEN AuthResult("delete", session_token, TRUE, "", None, None)
               ELSE AuthResult("delete", session_token, FALSE, "Session not found", None, None)
    /\ UNCHANGED <<otherVars, req, backend, ledgerVars, now, issued, expiredSeen>>

\* sessions.create_index([("expires_at", 1)], expireAfterSeconds=0): the
\* MongoDB TTL monitor removes, at some later time, a session whose
\* expires_at has passed
reap ==
    /\ backend = "mongo"
    /\ \E i \in 1..Len(sessions) :
          /\ sessions[i].expires_at < now
          /\ sessions' = delete_one(sessions, [session_token |-> sessions[i].session_token])
    /\ UNCHANGED <<otherVars, req, backend, ledgerVars, now, issued, deleted, expiredSeen, sres>>

\* time passes
Tick ==
    /\ now + TickHours <= MaxTime
    /\ now' = now + TickHours
    /\ UNCHANGED <<otherVars, req, backend, ledgerVars, sessions, issued, deleted, expiredSeen, sres>>

InitSession ==
    /\ backend \in {"mongo", "memory"}
    /\ Started
    /\ NoNormalizing
    /\ NoListing
    /\ NoFault
    /\ NoTally
    /\ products = <<>>
    /\ products0 = <<>>
    /\ sales = <<>>
    /\ last = NoCall
    /\ pc = [p \in Procs |-> "idle"]
    /\ call = [p \in Procs |-> NoCall]
    /\ item = [p \in Procs |-> NoDoc]
    /\ res = [p \in Procs |-> NoCall]
    /\ NoSessions
    /\ NoUsers
    /\ NoParsing
    /\ NoUpload

NextSession ==
    \/ \E user_id \in Users, username \in Usernames : create_session(user_id, username)
    \/ \E session_token \in Tokens : validate_session(session_token)
    \/ \E session_token \in Tokens : delete_session(session_token)
    \/ reap
    \/ Tick

SpecSession == InitSession /\ [][NextSession]_vars

\* ------------------------------------------------ ledger calls, one at a time
add_result(b, storage, name, quantity, user_id) ==
    IF find_one(storage, Query(name, user_id)) # NoDoc
    THEN Ok("add", name, quantity, user_id, "updated")
    ELSE IF InsertRaises(b, storage, product_data(name, quantity, user_id))
         THEN Fail("add", name, quantity, user_id, "DuplicateKeyError", 0)
         ELSE Ok("add", name, quantity, user_id, "added")

add_products_Dropped(b, storage, name, quantity, user_id) == storage

add_products(b, storage, name, quantity, user_id) ==
    IF find_one(storage, Query(name, user_id)) # NoDoc
    THEN update_one(storage, Query(name, user_id), quantity)
    ELSE IF InsertRaises(b, storage, product_data(name, quantity, user_id))
         THEN storage
         ELSE insert_one(storage, product_data(name, quantity, user_id))

RECURSIVE TotalQuantity(_)
TotalQuantity(storage) ==
    IF storage = <<>> THEN 0
    ELSE Head(storage).quantity + TotalQuantity(Tail(storage))

add_product(name, quantity, user_id) ==
    /\ TotalQuantity(products) + quantity <= MaxStock
    /\ products' = add_products(backend, products, name, quantity, user_id)
    /\ last' = add_result(backend, products, name, quantity, user_id)
    /\ UNCHANGED <<otherVars, req, sessionVars, backend, products0, sales, pc, call, item, res>>

SellCheck_OffByOne(doc, quantity) == doc.quantity + 1 < quantity

SellCheck(doc, quantity) == doc.quantity < quantity

sell_result_NoCheck(storage, name, quantity, user_id) ==
    LET doc == find_one(storage, Query(name, user_id)) IN
    IF doc = NoDoc THEN Ok("sell", name, quantity, user_id, "sold")
    ELSE IF SellCheck(doc, quantity)
         THEN Fail("sell", name, quantity, user_id, "Insufficient stock", quantity)
         ELSE Ok("sell", name, quantity, user_id, "sold")

sell_result(storage, name, quantity, user_id) ==
    LET doc == find_one(storage, Query(name, user_id)) IN
    IF doc = NoDoc THEN Fail("sell", name, quantity, user_id, "Product not found", 0)
    ELSE IF SellCheck(doc, quantity)
         THEN Fail("sell", name, quantity, user_id, "Insufficient stock", doc.quantity)
         ELSE Ok("sell", name, quantity, user_id, "sold")

sell_products(storage, name, quantity, user_id) ==
    IF sell_result(storage, name, quantity, user_id).success
    THEN update_one(storage, Query(name, user_id), -quantity)
    ELSE storage

sell_sales(log, storage, name, quantity, user_id) ==
    IF sell_result(storage, name, quantity, user_id).success
    THEN insert_one(log, sale_data(name, quantity, user_id))
    ELSE log

sell_product(name, quantity, user_id) ==
    /\ sell_result(products, name, quantity, user_id).success => Len(sales) < MaxSales
    /\ last' = sell_result(products, name, quantity, user_id)
    /\ products' = sell_products(products, name, quantity, user_id)
    /\ sales' = sell_sales(sales, products, name, quantity, user_id)
    /\ UNCHANGED <<otherVars, req, sessionVars, backend, products0, pc, call, item, res>>

DeleteCheck(doc, quantity) == doc.quantity < quantity

delete_result(storage, name, quantity, user_id) ==
    LET doc == find_one(storage, Query(name, user_id)) IN
    IF doc = NoDoc THEN Fail("delete", name, quantity, user_id, "Product not found", 0)
    ELSE IF DeleteCheck(doc, quantity)
         THEN Fail("delete", name, quantity, user_id, "Insufficient quantity", doc.quantity)
         ELSE Ok("delete", name, quantity, user_id, "deleted")

RemoveIfZero_Never(storage, query) == storage

\* "Remove product if quantity becomes 0": the second find_one and the
\* delete_one that follow the update
RemoveIfZero(storage, query) ==
    LET updated_item == find_one(storage, query) IN
    IF updated_item # NoDoc /\ updated_item.quantity = 0
    THEN delete_one(storage, query)
    ELSE storage

delete_products(storage, name, quantity, user_id) ==
    IF delete_result(storage, name, quantity, user_id).success
    THEN RemoveIfZero(update_one(storage, Query(name, user_id), -quantity),
                      Query(name, user_id))
    ELSE storage

delete_product(name, quantity, user_id) ==
    /\ last' = delete_result(products, name, quantity, user_id)
    /\ products' = delete_products(products, name, quantity, user_id)
    /\ UNCHANGED <<otherVars, req, sessionVars, backend, products0, sales, pc, call, item, res>>

\* get_inventory: with MongoDB, find(filter, projection); the in-memory
\* find() takes no projection argument and builds its cursor with a four
\* argument type() call, so it raises and the call returns success=False
get_inventory(b, storage, user_id) ==
    IF b = "memory" THEN [success |-> FALSE, products |-> <<>>]
    ELSE [success |-> TRUE,
          products |-> SelectSeq(storage,
                          LAMBDA doc : user_id = None \/ Get(doc, "user_id") = user_id)]

\* ------------------------------------------------------------- sequential
InitLedger ==
    /\ backend \in {"mongo", "memory"}
    /\ Started
    /\ NoNormalizing
    /\ NoListing
    /\ NoFault
    /\ NoTally
    /\ products = <<>>
    /\ products0 = <<>>
    /\ sales = <<>>
    /\ last = NoCall
    /\ pc = [p \in Procs |-> "idle"]
    /\ call = [p \in Procs |-> NoCall]
    /\ item = [p \in Procs |-> NoDoc]
    /\ res = [p \in Procs |-> NoCall]
    /\ NoSessions
    /\ NoUsers
    /\ NoParsing
    /\ NoUpload

NextLedger ==
    \/ \E name \in Names, quantity \in 1..MaxQty, user_id \in Owners :
          add_product(name, quantity, user_id)
    \/ \E name \in Names, quantity \in 1..MaxQty, user_id \in Owners :
          sell_product(name, quantity, user_id)
    \/ \E name \in Names, quantity \in 1..MaxQty, user_id \in Owners :
          delete_product(name, quantity, user_id)

SpecLedger == InitLedger /\ [][NextLedger]_vars
\* ------------------------------------------------------------ command parser
Upper == <<"A", "B", "C", "D", "E", "F", "G", "H", "I", "J", "K", "L", "M",
           "N", "O", "P", "Q", "R", "S", "T", "U", "V", "W", "X", "Y", "Z">>
Lower == <<"a", "b", "c", "d", "e", "f", "g", "h", "i", "j", "k", "l", "m",
           "n", "o", "p", "q", "r", "s", "t", "u", "v", "w", "x", "y", "z">>
Digits == <<"0", "1", "2", "3", "4", "5", "6", "7", "8", "9">>

\* the whitespace of str.strip() and of \s
IsSpace(c) == c \in {" ", "\t", "\n"}
IsDigit(c) == \E i \in 1..10 : Digits[i] = c
DigitValue(c) == (CHOOSE i \in 1..10 : Digits[i] = c) - 1

\* str.lower()
lower(text) ==
    [i \in 1..Len(text) |->
        IF \E k \in 1..26 : Upper[k] = text[i]
        THEN Lower[CHOOSE k \in 1..26 : Upper[k] = text[i]]
        ELSE text[i]]

\* str.strip()
RECURSIVE lstrip(_)
lstrip(text) ==
    IF text # <<>> /\ IsSpace(Head(text)) THEN lstrip(Tail(text)) ELSE text

RECURSIVE rstrip(_)
rstrip(text) ==
    IF text # <<>> /\ IsSpace(text[Len(text)])
    THEN rstrip(SubSeq(text, 1, Len(text) - 1)) ELSE text

strip(text) == rstrip(lstrip(text))

\* length of the longest prefix of text matched by \s+ and by \d+
RECURSIVE SpaceRun(_)
SpaceRun(text) ==
    IF text # <<>> /\ IsSpace(Head(text)) THEN 1 + SpaceRun(Tail(text)) ELSE 0

RECURSIVE DigitRun(_)
DigitRun(text) ==
    IF text # <<>> /\ IsDigit(Head(text)) THEN 1 + DigitRun(Tail(text)) ELSE 0

Drop(text, n) == SubSeq(text, n + 1, Len(text))

StartsWith(text, prefix) ==
    Len(text) >= Len(prefix) /\ SubSeq(text, 1, Len(prefix)) = prefix

\* int(match.group(1))
RECURSIVE ToInt(_)
ToInt(digits) ==
    IF digits = <<>> THEN 0
    ELSE 10 * ToInt(SubSeq(digits, 1, Len(digits) - 1)) + DigitValue(digits[Len(digits)])

\* the longest prefix of text matched by .* : "." matches any character but
\* the newline
RECURSIVE DotRun(_)
DotRun(text) ==
    IF text # <<>> /\ Head(text) # "\n" THEN 1 + DotRun(Tail(text)) ELSE 0

\* re.match(verb + r"\s+(\d+)\s+(.+)", text): the greedy runs of whitespace
\* and digits, then the rest of the line, at least one character of it (text
\* is stripped, so what follows a whitespace run is not whitespace and no
\* shorter run can match where the greedy one fails)
re_match(verb, text) ==
    LET afterVerb == Drop(text, Len(verb))
        w1 == SpaceRun(afterVerb)
        afterW1 == Drop(afterVerb, w1)
        d == DigitRun(afterW1)
        afterD == Drop(afterW1, d)
        w2 == SpaceRun(afterD)
        rest == Drop(afterD, w2)
    IN  IF StartsWith(text, verb) /\ w1 >= 1 /\ d >= 1 /\ w2 >= 1 /\ DotRun(rest) >= 1
        THEN [matched |-> TRUE, group1 |-> SubSeq(afterW1, 1, d),
              group2 |-> SubSeq(rest, 1, DotRun(rest))]
        ELSE [matched |-> FALSE, group1 |-> <<>>, group2 |-> <<>>]

Patterns_SellVerb == << [action |-> "add", verb |-> <<"a", "d", "d">>],
                        [action |-> "sell", verb |-> <<"s", "e", "l", "l">>],
                        [action |-> "delete", verb |-> <<"d", "e", "l", "e", "t", "e">>] >>

\* the patterns dict, in insertion order
Patterns == << [action |-> "add", verb |-> <<"a", "d", "d">>],
               [action |-> "sell", verb |-> <<"s", "o", "l", "d">>],
               [action |-> "delete", verb |-> <<"d", "e", "l", "e", "t", "e">>] >>

ParseError(error) ==
    [ok |-> FALSE, action |-> "", quantity |-> 0, product |-> <<>>, error |-> error]

QuantityRejected_Negative(quantity) == quantity < 0

\* if quantity <= 0: return {"error": ...}
QuantityRejected(quantity) == quantity <= 0

RECURSIVE TryPatterns(_, _)
TryPatterns(text, i) ==
    IF i > Len(Patterns) THEN ParseError("Invalid command format")
    ELSE LET match == re_match(Patterns[i].verb, text) IN
         IF match.matched
         THEN IF QuantityRejected(ToInt(match.group1))
              THEN ParseError("Quantity must be greater than 0")
              ELSE [ok |-> TRUE, action |-> Patterns[i].action,
                    quantity |-> ToInt(match.group1),
                    product |-> strip(match.group2), error |-> ""]
         ELSE TryPatterns(text, i + 1)

parse_inventory_command(text) == TryPatterns(strip(lower(text)), 1)

\* the texts handed to the parser: each is put together from a lead, a verb,
\* a gap, a number, a gap, a product and a trail
Eggs == <<"e", "g", "g", "s">>
Leads == {<<>>, <<" ">>}
Verbs == { <<"a", "d", "d">>, <<"A", "d", "d">>, <<"s", "o", "l", "d">>,
           <<"d", "e", "l", "e", "t", "e">>, <<"b", "u", "y">> }
Gaps == {<<" ">>, <<" ", " ">>, <<"\t">>, <<"\n">>, <<>>}
Numbers == {<<"1">>, <<"0">>, <<"3">>, <<"1", "2">>, <<"0", "7">>, <<"-", "1">>}
Rests == { Milk, Eggs, <<"o", "f", " ", "t", "e", "a">>, <<"t", "-", "4", "!">>,
           <<"t", "e", "a", "\n", "b", "u", "n">>, <<>> }
Trails == {<<>>, <<" ">>}
ParseTexts ==
    { lead \o verb \o gap1 \o number \o gap2 \o rest \o trail :
        lead \in Leads, verb \in Verbs, gap1 \in Gaps, number \in Numbers,
        gap2 \in {<<" ">>, <<"\n">>, <<>>}, rest \in Rests, trail \in Trails }

\* one call of parse_inventory_command
parse_command ==
    /\ pres = NoDoc
    /\ pres' = parse_inventory_command(ptext)
    /\ UNCHANGED <<backend, ledgerVars, sessionVars, req, userVars, importVars, ptext, auxVars>>

InitParser ==
    /\ backend \in {"mongo", "memory"}
    /\ Started
    /\ NoNormalizing
    /\ NoListing
    /\ NoFault
    /\ NoTally
    /\ products = <<>>
    /\ products0 = <<>>
    /\ sales = <<>>
    /\ last = NoCall
    /\ pc = [p \in Procs |-> "idle"]
    /\ call = [p \in Procs |-> NoCall]
    /\ item = [p \in Procs |-> NoDoc]
    /\ res = [p \in Procs |-> NoCall]
    /\ NoSessions
    /\ NoUsers
    /\ NoUpload
    /\ ptext \in ParseTexts
    /\ pres = NoDoc

NextParser == parse_command

SpecParser == InitParser /\ [][NextParser]_vars
\* -------------------------------------------------------------- entry points
\* request texts
T_Add == <<"A", "d", "d", " ", "1", " ", "m", "i", "l", "k">>
T_Sold == <<"s", "o", "l", "d", " ", " ", "2", " ", "m", "i", "l", "k">>
T_Delete == <<" ", "D", "E", "L", "E", "T", "E", " ", "1", " ", "m", "i", "l", "k">>
T_Buy == <<"b", "u", "y", " ", "3", " ", "m", "i", "l", "k">>
T_Zero == <<"a", "d", "d", " ", "0", " ", "m", "i", "l", "k">>
T_Blank == <<" ">>
Texts == {T_Add, T_Sold, T_Delete, T_Buy, T_Zero, T_Blank}

\* parse_inventory_command on each request text, evaluated once
Parsed == [text \in Texts |-> parse_inventory_command(strip(text))]

\* the effect of one ledger call made by a request handler
Ledger(op, name, quantity, user_id) ==
    /\ op = "add" =>
          /\ products' = add_products(backend, products, name, quantity, user_id)
          /\ sales' = sales
          /\ last' = add_result(backend, products, name, quantity, user_id)
    /\ op = "sell" =>
          /\ products' = sell_products(products, name, quantity, user_id)
          /\ sales' = sell_sales(sales, products, name, quantity, user_id)
          /\ last' = sell_result(products, name, quantity, user_id)
    /\ op = "delete" =>
          /\ products' = delete_products(products, name, quantity, user_id)
          /\ sales' = sales
          /\ last' = delete_result(products, name, quantity, user_id)

\* the ledger stays within the bounds of the model
WithinBounds(op, name, quantity, user_id) ==
    /\ op = "add" => TotalQuantity(products) + quantity <= MaxStock
    /\ (op = "sell" /\ sell_result(products, name, quantity, user_id).success)
          => Len(sales) < MaxSales

\* text: the command text a save-text request posts (data['text']); the other
\* handlers are recorded without one
HandledText(text, endpoint, token, authed, user, ledger, owner, status) ==
    req' = [endpoint |-> endpoint, token |-> token, authed |-> authed, user |-> user,
            ledger |-> ledger, owner |-> owner, status |-> status, text |-> text]

Handled(endpoint, token, authed, user, ledger, owner, status) ==
    HandledText(<<>>, endpoint, token, authed, user, ledger, owner, status)

\* getattr(request, 'user', {}).get('user_id') in the blueprint's handlers:
\* no handler of inventory_bp is wrapped in require_auth, so request.user is
\* never set there
blueprint_user_id == None

\* POST /api/inventory/command
process_command(token, text) ==
    LET parsed_result == Parsed[text]
        user_id == blueprint_user_id
    IN  /\ UNCHANGED <<otherVars, backend, products0, pc, call, item, res, sessionVars>>
        /\ IF strip(text) = <<>> \/ ~parsed_result.ok
           THEN /\ UNCHANGED <<products, sales, last>>
                /\ Handled("command", token, FALSE, None, "none", None, 400)
           ELSE /\ WithinBounds(parsed_result.action, parsed_result.product,
                                parsed_result.quantity, user_id)
                /\ Ledger(parsed_result.action, parsed_result.product,
                          parsed_result.quantity, user_id)
                /\ Handled("command", token, FALSE, None, parsed_result.action, user_id,
                           IF last'.success THEN 200 ELSE 500)

\* GET /api/inventory/inventory
get_inventory_route(token) ==
    LET user_id == blueprint_user_id
        result == get_inventory(backend, products, user_id)
    IN  /\ Handled("inventory", token, FALSE, None, "list", user_id,
                   IF result.success THEN 200 ELSE 500)
        /\ UNCHANGED <<otherVars, backend, ledgerVars, sessionVars>>

\* GET /api/inventory/stats
get_inventory_stats(token) ==
    LET user_id == blueprint_user_id
        inventory == get_inventory(backend, products, user_id)
    IN  /\ Handled("stats", token, FALSE, None, "list", user_id,
                   IF inventory.success THEN 200 ELSE 500)
        /\ UNCHANGED <<otherVars, backend, ledgerVars, sessionVars>>

\* names a delete request may carry: a stored name, or one that differs from
\* it in case only
Milk_Title == <<"M", "i", "l", "k">>
RequestNames == Names \cup {Milk_Title}

\* DELETE /api/inventory/delete; given = the payload carries a quantity.
\* Without one ("delete the entire product") the quantity is read from a
\* listing, from the first product whose name equals the given one ignoring
\* case; when the listing fails it stays None, delete_product's comparison
\* with it raises and the call fails.  delete_product is called with the name
\* as given
delete_inventory_item(token, name, given, quantity) ==
    LET user_id == blueprint_user_id
        inventory == get_inventory(backend, products, user_id)
        listed == {i \in 1..Len(inventory.products) :
                      lower(inventory.products[i].name) = lower(name)}
        product == inventory.products[CHOOSE i \in listed : \A j \in listed : i <= j]
    IN  /\ UNCHANGED <<otherVars, backend, products0, pc, call, item, res, sessionVars>>
        /\ IF ~given /\ inventory.success /\ listed = {}
           THEN /\ UNCHANGED <<products, sales, last>>
                /\ Handled("delete", token, FALSE, None, "list", user_id, 404)
           ELSE IF ~given /\ ~inventory.success
           THEN /\ UNCHANGED <<products, sales>>
                /\ last' = Fail("delete", name, 0, user_id,
                                IF find_one(products, Query(name, user_id)) = NoDoc
                                THEN "Product not found" ELSE "TypeError", 0)
                /\ Handled("delete", token, FALSE, None, "delete", user_id, 400)
           ELSE IF given /\ quantity <= 0
           THEN /\ UNCHANGED <<products, sales, last>>
                /\ Handled("delete", token, FALSE, None, "none", None, 400)
           ELSE /\ Ledger("delete", name,
                          IF given THEN quantity ELSE product.quantity, user_id)
                /\ Handled("delete", token, FALSE, None, "delete", user_id,
                           IF last'.success THEN 200 ELSE 400)

\* require_auth: no token -> 401; validate_session fails -> 401; otherwise
\* request.user is set and the wrapped handler runs
require_auth(endpoint, token, text) ==
    LET result == validate_result(sessions, token) IN
    IF token = None
    THEN /\ UNCHANGED <<sres, expiredSeen>>
         /\ HandledText(text, endpoint, token, FALSE, None, "none", None, 401)
    ELSE /\ sres' = result
         /\ expiredSeen' = IF result.error = "Session has expired"
                           THEN expiredSeen \cup {token} ELSE expiredSeen
         /\ HandledText(text, endpoint, token, result.success, result.user_id,
                        "none", None, IF result.success THEN 200 ELSE 401)

\* POST /api/save-text.  The ledger code of the handler sits in a try block
\* whose first statement, "from .utils import parse_inventory_command",
\* names a module (src.backend.utils) that does not exist, so the block always
\* ends in its except branch before the text is parsed or any ledger call is
\* made: inventory_result stays None and the response carries no inventory
\* result, whatever the text
save_text_api(token, text) ==
    /\ require_auth("save-text", token, text)
    /\ UNCHANGED <<otherVars, backend, ledgerVars, sessions, now, issued, deleted>>

\* POST /api/speech-to-text: the same try block after the transcription
speech_to_text_api(token) ==
    /\ require_auth("speech-to-text", token, <<>>)
    /\ UNCHANGED <<otherVars, backend, ledgerVars, sessions, now, issued, deleted>>

\* one user has logged in: a session for u1 exists
InitRoutes ==
    /\ backend \in {"mongo", "memory"}
    /\ Started
    /\ NoNormalizing
    /\ NoListing
    /\ NoFault
    /\ NoTally
    /\ products = <<>>
    /\ products0 = <<>>
    /\ sales = <<>>
    /\ last = NoCall
    /\ pc = [p \in Procs |-> "idle"]
    /\ call = [p \in Procs |-> NoCall]
    /\ item = [p \in Procs |-> NoDoc]
    /\ res = [p \in Procs |-> NoCall]
    /\ now = 0
    /\ sessions = <<[session_token |-> "t1", user_id |-> "u1", username |-> "alice",
                     created_at |-> 0, expires_at |-> expires_at(0), is_active |-> TRUE]>>
    /\ issued = [t \in Tokens |->
                    IF t = "t1"
                    THEN [user_id |-> "u1", username |-> "alice", created_at |-> 0]
                    ELSE NoDoc]
    /\ deleted = {}
    /\ expiredSeen = {}
    /\ sres = NoAuth
    /\ req = NoRequest
    /\ NoUsers
    /\ NoParsing
    /\ NoUpload

NextRoutes ==
    \/ \E token \in Tokens \cup {None}, text \in Texts : process_command(token, text)
    \/ \E token \in Tokens \cup {None} : get_inventory_route(token)
    \/ \E token \in Tokens \cup {None} : get_inventory_stats(token)
    \/ \E token \in Tokens \cup {None}, name \in RequestNames, given \in BOOLEAN,
          quantity \in 0..MaxQty :
          delete_inventory_item(token, name, given, quantity)
    \/ \E token \in Tokens \cup {None}, text \in Texts : save_text_api(token, text)
    \/ \E token \in Tokens \cup {None} : speech_to_text_api(token)
    \/ Tick

SpecRoutes == InitRoutes /\ [][NextRoutes]_vars

\* ------------------------------------------------------------- concurrent
\* Two request threads, one ledger call each.  A step is one access to the
\* storage backend together with the local computation that follows it up to
\* the next access; the backend applies each access atomically.
Args(op, name, quantity, user_id) ==
    [op |-> op, name |-> name, quantity |-> quantity, user_id |-> user_id]

CallQuery(p) == Query(call[p].name, call[p].user_id)

Return(p, r) ==
    /\ res' = [res EXCEPT ![p] = r]
    /\ pc' = [pc EXCEPT ![p] = "done"]

\* sell_product up to and including its two early returns
sell_find(p, name, quantity, user_id) ==
    LET r == sell_result(products, name, quantity, user_id) IN
    /\ pc[p] = "idle"
    /\ call' = [call EXCEPT ![p] = Args("sell", name, quantity, user_id)]
    /\ item' = [item EXCEPT ![p] = find_one(products, Query(name, user_id))]
    /\ IF r.success
       THEN /\ pc' = [pc EXCEPT ![p] = "sell_update"]
            /\ UNCHANGED res
       ELSE Return(p, r)
    /\ UNCHANGED <<otherVars, req, sessionVars, backend, products, products0, sales, last>>

\* sell_product: products.update_one(..., {"$inc": {"quantity": -quantity}})
sell_update(p) ==
    /\ pc[p] = "sell_update"
    /\ products' = update_one(products, CallQuery(p), -call[p].quantity)
    /\ pc' = [pc EXCEPT ![p] = "sell_record"]
    /\ UNCHANGED <<otherVars, req, sessionVars, backend, products0, sales, last, call, item, res>>

\* sell_product: sales.insert_one(sale_data) and the success return
sell_record(p) ==
    /\ pc[p] = "sell_record"
    /\ sales' = insert_one(sales, sale_data(call[p].name, call[p].quantity, call[p].user_id))
    /\ Return(p, Ok("sell", call[p].name, call[p].quantity, call[p].user_id, "sold"))
    /\ UNCHANGED <<otherVars, req, sessionVars, backend, products, products0, last, call, item>>

\* delete_product up to and including its two early returns
delete_find(p, name, quantity, user_id) ==
    LET r == delete_result(products, name, quantity, user_id) IN
    /\ pc[p] = "idle"
    /\ call' = [call EXCEPT ![p] = Args("delete", name, quantity, user_id)]
    /\ item' = [item EXCEPT ![p] = find_one(products, Query(name, user_id))]
    /\ IF r.success
       THEN /\ pc' = [pc EXCEPT ![p] = "delete_update"]
            /\ UNCHANGED res
       ELSE Return(p, r)
    /\ UNCHANGED <<otherVars, req, sessionVars, backend, products, products0, sales, last>>

delete_update(p) ==
    /\ pc[p] = "delete_update"
    /\ products' = update_one(products, CallQuery(p), -call[p].quantity)
    /\ pc' = [pc EXCEPT ![p] = "delete_refind"]
    /\ UNCHANGED <<otherVars, req, sessionVars, backend, products0, sales, last, call, item, res>>

\* delete_product: updated_item = find_one(...) and the test on it
delete_refind(p) ==
    LET updated_item == find_one(products, CallQuery(p)) IN
    /\ pc[p] = "delete_refind"
    /\ item' = [item EXCEPT ![p] = updated_item]
    /\ IF updated_item # NoDoc /\ updated_item.quantity = 0
       THEN /\ pc' = [pc EXCEPT ![p] = "delete_remove"]
            /\ UNCHANGED res
       ELSE Return(p, Ok("delete", call[p].name, call[p].quantity, call[p].user_id, "deleted"))
    /\ UNCHANGED <<otherVars, req, sessionVars, backend, products, products0, sales, last, call>>

\* delete_product: products.delete_one(...) and the success return
delete_remove(p) ==
    /\ pc[p] = "delete_remove"
    /\ products' = delete_one(products, CallQuery(p))
    /\ Return(p, Ok("delete", call[p].name, call[p].quantity, call[p].user_id, "deleted"))
    /\ UNCHANGED <<otherVars, req, sessionVars, backend, products0, sales, last, call, item>>

\* add_product: existing = find_one(...)
add_find(p, name, quantity, user_id) ==
    /\ pc[p] = "idle"
    /\ TotalQuantity(products) + quantity <= MaxStock
    /\ call' = [call EXCEPT ![p] = Args("add", name, quantity, user_id)]
    /\ item' = [item EXCEPT ![p] = find_one(products, Query(name, user_id))]
    /\ pc' = [pc EXCEPT ![p] =
                IF find_one(products, Query(name, user_id)) # NoDoc
                THEN "add_update" ELSE "add_insert"]
    /\ UNCHANGED <<otherVars, req, sessionVars, backend, products, products0, sales, last, res>>

\* add_product: update_one(..., {"$inc": {"quantity": quantity}})
add_update(p) ==
    /\ pc[p] = "add_update"
    /\ products' = update_one(products, CallQuery(p), call[p].quantity)
    /\ Return(p, Ok("add", call[p].name, call[p].quantity, call[p].user_id, "updated"))
    /\ UNCHANGED <<otherVars, req, sessionVars, backend, products0, sales, last, call, item>>

\* add_product: insert_one(product_data), or the except branch when it raises
add_insert(p) ==
    LET document == product_data(call[p].name, call[p].quantity, call[p].user_id) IN
    /\ pc[p] = "add_insert"
    /\ IF InsertRaises(backend, products, document)
       THEN /\ UNCHANGED products
            /\ Return(p, Fail("add", call[p].name, call[p].quantity, call[p].user_id,
                              "DuplicateKeyError", 0))
       ELSE /\ products' = insert_one(products, document)
            /\ Return(p, Ok("add", call[p].name, call[p].quantity, call[p].user_id, "added"))
    /\ UNCHANGED <<otherVars, req, sessionVars, backend, products0, sales, last, call, item>>

\* a ledger holding at most one product when the two calls arrive
InitConc ==
    /\ backend \in {"mongo", "memory"}
    /\ Started
    /\ NoNormalizing
    /\ NoListing
    /\ NoFault
    /\ NoTally
    /\ products \in {<<>>} \cup
          {<<product_data(name, quantity, user_id)>> :
              name \in Names, quantity \in 1..MaxStock, user_id \in Owners}
    /\ products0 = products
    /\ sales = <<>>
    /\ last = NoCall
    /\ pc = [p \in Procs |-> "idle"]
    /\ call = [p \in Procs |-> NoCall]
    /\ item = [p \in Procs |-> NoDoc]
    /\ res = [p \in Procs |-> NoCall]
    /\ NoSessions
    /\ NoUsers
    /\ NoParsing
    /\ NoUpload

NextConc ==
    \E p \in Procs :
        \/ \E name \in Names, quantity \in 1..MaxQty, user_id \in Owners :
              sell_find(p, name, quantity, user_id)
        \/ sell_update(p)
        \/ sell_record(p)
        \/ \E name \in Names, quantity \in 1..MaxQty, user_id \in Owners :
              delete_find(p, name, quantity, user_id)
        \/ delete_update(p)
        \/ delete_refind(p)
        \/ delete_remove(p)
        \/ \E name \in Names, quantity \in 1..MaxQty, user_id \in Owners :
              add_find(p, name, quantity, user_id)
        \/ add_update(p)
        \/ add_insert(p)

SpecConc == InitConc /\ [][NextConc]_vars

\* ------------------------------------------------------------ user store
\* usernames, e-mail addresses and the login identifier are character
\* sequences; the "full_name" and "created_at" fields of a user document are
\* never read by create_user or authenticate_user and are left out
MaxUsers == 2                      \* create_user stores at most this many users

Al == <<"a", "l">>
Bo == <<"b", "o">>
AlMail == <<"a", "@", "x", ".", "y">>
BoMail == <<"b", "@", "x", ".", "y">>
NoDotMail == <<"a", "@", "x">>
Logins == {Al, Bo}
Emails == {AlMail, BoMail, NoDotMail}
Passwords == {"pw1", "pw2"}
Salts == {"s1", "s2"}              \* values of secrets.token_hex(16)

UserResult(op, id, password, success, error, user_id, username, email) ==
    [op |-> op, id |-> id, password |-> password, success |-> success,
     error |-> error, user_id |-> user_id, username |-> username, email |-> email]

\* re.match(r"^[^@]+@[^@]+\.[^@]+$", email): exactly one "@", something
\* before it, and after it a "." with something on both sides
EmailFormat(email) ==
    \E a \in 2..Len(email) :
        /\ email[a] = "@"
        /\ \A i \in 1..Len(email) : email[i] = "@" => i = a
        /\ \E d \in (a + 2)..(Len(email) - 1) : email[d] = "."

\* find_one({"$or": [...]}): MongoDB returns the first document that matches
\* one of the alternatives; InMemoryCollection.find_one compares
\* doc.get("$or") with the list of alternatives, which no document satisfies
find_one_or(b, storage, alternatives) ==
    IF b = "memory" THEN NoDoc
    ELSE LET hits == {i \in 1..Len(storage) :
                         \E q \in alternatives : Matches(storage[i], q)} IN
         IF hits = {} THEN NoDoc
         ELSE storage[CHOOSE i \in hits : \A j \in hits : i <= j]

\* hashlib.sha256((password + salt).encode()).hexdigest(): the digest stands
\* for the pair it was computed from (salt has a fixed length; no collisions)
password_hash(password, salt) == <<password, salt>>

\* users.create_index("email", unique=True), ("username", unique=True)
UserInsertRaises(b, storage, document) ==
    /\ b = "mongo"
    /\ \E i \in 1..Len(storage) :
          \/ storage[i].email = document.email
          \/ storage[i].username = document.username

\* insert_one sets "_id": str(counter) in memory, a fresh ObjectId in MongoDB
user_data(storage, username, email, password, salt) ==
    [_id |-> ToString(Len(storage) + 1), username |-> username, email |-> email,
     password_hash |-> password_hash(password, salt), salt |-> salt,
     is_active |-> TRUE, role |-> "user"]

create_user_result(b, storage, username, email, password, salt) ==
    LET document == user_data(storage, username, email, password, salt) IN
    IF username = <<>> \/ email = <<>> \/ password = ""
    THEN UserResult("create", username, password, FALSE,
                    "Username, email, and password are required", None, username, email)
    ELSE IF ~EmailFormat(email)
    THEN UserResult("create", username, password, FALSE, "Invalid email format",
                    None, username, email)
    ELSE IF find_one_or(b, storage, {[username |-> username], [email |-> email]}) # NoDoc
    THEN UserResult("create", username, password, FALSE,
                    "Username or email already exists", None, username, email)
    ELSE IF UserInsertRaises(b, storage, document)
    THEN UserResult("create", username, password, FALSE, "DuplicateKeyError",
                    None, username, email)
    ELSE UserResult("create", username, password, TRUE, "", document._id, username, email)

create_user(username, email, password, salt) ==
    LET result == create_user_result(backend, users, username, email, password, salt) IN
    /\ result.success => Len(users) < MaxUsers
    /\ ures' = result
    /\ users' = IF result.success
                THEN Append(users, user_data(users, username, email, password, salt))
                ELSE users
    /\ UNCHANGED <<backend, ledgerVars, sessionVars, req, parserVars, importVars, auxVars>>

authenticate_user_result(b, storage, username, password) ==
    LET user == find_one_or(b, storage, {[username |-> username], [email |-> username]}) IN
    IF user = NoDoc
    THEN UserResult("authenticate", username, password, FALSE, "User not found",
                    None, <<>>, <<>>)
    ELSE IF ~user.is_active
    THEN UserResult("authenticate", username, password, FALSE, "Account is deactivated",
                    None, <<>>, <<>>)
    ELSE IF password_hash(password, user.salt) # user.password_hash
    THEN UserResult("authenticate", username, password, FALSE, "Invalid password",
                    None, <<>>, <<>>)
    ELSE UserResult("authenticate", username, password, TRUE, "",
                    user._id, user.username, user.email)

authenticate_user(username, password) ==
    /\ ures' = authenticate_user_result(backend, users, username, password)
    /\ UNCHANGED <<backend, ledgerVars, sessionVars, req, users, parserVars, importVars, auxVars>>

InitAuth ==
    /\ backend \in {"mongo", "memory"}
    /\ Started
    /\ NoNormalizing
    /\ NoListing
    /\ NoFault
    /\ NoTally
    /\ products = <<>>
    /\ products0 = <<>>
    /\ sales = <<>>
    /\ last = NoCall
    /\ pc = [p \in Procs |-> "idle"]
    /\ call = [p \in Procs |-> NoCall]
    /\ item = [p \in Procs |-> NoDoc]
    /\ res = [p \in Procs |-> NoCall]
    /\ NoSessions
    /\ NoUsers
    /\ NoParsing
    /\ NoUpload

NextAuth ==
    \/ \E username \in Logins \cup {<<>>}, email \in Emails, password \in Passwords,
          salt \in Salts :
              create_user(username, email, password, salt)
    \/ \E username \in Logins \cup Emails, password \in Passwords :
              authenticate_user(username, password)

SpecAuth == InitAuth /\ [][NextAuth]_vars
\* ------------------------------------------------------------ bulk import
\* A spreadsheet is the extension of its file name, the set of its column
\* names and its rows in order.  A row gives a cell for each of the six
\* columns (read only where the spreadsheet has the column) and the set of
\* columns whose cell is empty (NaN).  Numeric cells are integers, on which
\* int(float(.)) and float(.) change nothing.
MaxRows == 2                       \* rows of one spreadsheet

Apple == <<"a", "p", "p", "l", "e">>
Apples == <<"A", "p", "p", "l", "e", "s">>
ImportNames == {Apples}

AllColumns == {"name", "quantity", "cost_price", "selling_price", "total_value", "profit"}

Row(name, quantity, cost_price, selling_price, blank) ==
    [name |-> name, quantity |-> quantity, cost_price |-> cost_price,
     selling_price |-> selling_price, total_value |-> quantity * selling_price,
     profit |-> (selling_price - cost_price) * quantity, blank |-> blank]

RowKinds == { Row(Apple, 1, 1, 2, {}),          \* valid
              Row(Apples, 1, 1, 2, {}),         \* valid
              Row(Apple, 0, 1, 2, {}),          \* quantity <= 0
              Row(Apple, 1, 1, 1, {}),          \* selling_price <= cost_price
              Row(Apple, 1, -1, 2, {}),         \* negative cost_price
              Row(Apple, 1, 1, 2, {"name"}) }   \* no name

RECURSIVE RowSeqs(_)
RowSeqs(n) ==
    IF n = 0 THEN {<<>>}
    ELSE RowSeqs(n - 1) \cup
         {Append(rows, row) : rows \in {s \in RowSeqs(n - 1) : Len(s) = n - 1},
                              row \in RowKinds}

ColumnSets == { AllColumns,
                AllColumns \ {"total_value", "profit"},
                AllColumns \ {"selling_price"},
                AllColumns \ {"name"} }

Uploads ==
    { [extension |-> ".xlsx", columns |-> columns, rows |-> rows] :
          columns \in ColumnSets, rows \in RowSeqs(MaxRows) }
    \cup { [extension |-> ".csv", columns |-> AllColumns, rows |-> <<Row(Apple, 1, 1, 2, {})>>],
           NoFile }

ImportResult(success, message, imported, updated, errors) ==
    [success |-> success, message |-> message, imported |-> imported,
     updated |-> updated, duplicates |-> 0, errors |-> errors]

required_columns_NoSellingPrice == {"name", "quantity", "cost_price"}

\* required_columns = ['name', 'quantity', 'cost_price', 'selling_price']
required_columns == {"name", "quantity", "cost_price", "selling_price"}

\* excel_data[column] raises KeyError for a column the sheet does not have
HasColumns(file, columns) == columns \subseteq file.columns

\* the two derived columns are computed from columns that must be there
DerivingRaises(file) ==
    \/ "total_value" \notin file.columns
          /\ ~HasColumns(file, {"quantity", "selling_price"})
    \/ "profit" \notin file.columns
          /\ ~HasColumns(file, {"quantity", "selling_price", "cost_price"})

\* row_dict.get(column, default) after the derived columns were added
Cell(file, row, column, default) ==
    IF column \in file.columns THEN row[column] ELSE default

\* excel_data.dropna(subset=['name', 'quantity']).to_dict(orient="records"),
\* each record with the values the loop extracts from it
Records(file) ==
    LET kept == SelectSeq(file.rows, LAMBDA row : row.blank \cap {"name", "quantity"} = {})
    IN  [i \in 1..Len(kept) |->
            LET row == kept[i]
                quantity == Cell(file, row, "quantity", 0)
                cost_price == Cell(file, row, "cost_price", 0)
                selling_price == Cell(file, row, "selling_price", 0)
            IN  [name |-> strip(Cell(file, row, "name", <<>>)),
                 quantity |-> quantity,
                 cost_price |-> cost_price,
                 selling_price |-> selling_price,
                 total_value |-> Cell(file, row, "total_value", quantity * selling_price),
                 profit |-> Cell(file, row, "profit",
                                 (selling_price - cost_price) * quantity)]]

\* ---- normalize_product_name
EndsWith(text, suffix) ==
    Len(text) >= Len(suffix)
    /\ SubSeq(text, Len(text) - Len(suffix) + 1, Len(text)) = suffix

plural_endings == << <<"s">>, <<"e", "s">>, <<"i", "e", "s">>, <<"v", "e", "s">> >>

\* the loop over plural_endings: the first ending the name ends with is
\* removed (or replaced), and the loop breaks
RECURSIVE StripPlural(_, _)
StripPlural(normalized, i) ==
    IF i > Len(plural_endings) THEN normalized
    ELSE LET ending == plural_endings[i] IN
         IF EndsWith(normalized, ending)
         THEN IF ending = <<"i", "e", "s">>
              THEN SubSeq(normalized, 1, Len(normalized) - 3) \o <<"y">>
              ELSE IF ending = <<"v", "e", "s">>
              THEN SubSeq(normalized, 1, Len(normalized) - 3) \o <<"f">>
              ELSE SubSeq(normalized, 1, Len(normalized) - Len(ending))
         ELSE StripPlural(normalized, i + 1)

\* re.sub(r'[^a-z0-9\s]', '', normalized)
IsPlain(c) == (\E k \in 1..26 : Lower[k] = c) \/ IsDigit(c) \/ IsSpace(c)

\* re.sub(r'\s+', ' ', normalized)
RECURSIVE CollapseSpaces(_)
CollapseSpaces(text) ==
    IF text = <<>> THEN <<>>
    ELSE IF IsSpace(Head(text))
    THEN <<" ">> \o CollapseSpaces(Drop(text, SpaceRun(text)))
    ELSE <<Head(text)>> \o CollapseSpaces(Tail(text))

normalize_product_name_NoPlural(name) ==
    strip(CollapseSpaces(SelectSeq(strip(lower(name)), IsPlain)))

normalize_product_name(name) ==
    strip(CollapseSpaces(SelectSeq(StripPlural(strip(lower(name)), 1), IsPlain)))

\* ---- the call db.add_product(name, quantity, cost_price=..., ...)
\* def add_product(self, name, quantity, user_id=None)
add_product_parameters == {"name", "quantity", "user_id"}

\* the arguments the import passes by keyword
import_keywords == {"cost_price", "selling_price", "total_value", "profit", "user_id"}

\* a keyword the function does not declare raises TypeError before the
\* function body runs
AddProductCallRaises == ~(import_keywords \subseteq add_product_parameters)

\* the names bound in process_excel_file when the per-row handler runs
bound_names == {"file", "user_id", "pd", "io", "excel_data", "required_columns",
                "missing_columns", "db", "existing_inventory", "existing_products",
                "imported_count", "updated_count", "duplicate_count", "errors",
                "records", "index", "row_dict", "e"}

\* the per-row handler reads the name "row": NameError when it is unbound
RowHandlerRaises == "row" \notin bound_names

\* existing_products: item['name'].lower().strip() of the listed products,
\* or the empty set when the listing failed
existing_products(b, storage, user_id) ==
    LET existing_inventory == get_inventory(b, storage, user_id) IN
    IF existing_inventory.success
    THEN {strip(lower(existing_inventory.products[i].name)) :
              i \in 1..Len(existing_inventory.products)}
    ELSE {}

RowError(index, error) == [row |-> index + 1, error |-> error]

\* one pass of the loop over records; st carries the ledger, the snapshot
\* set, the counters, the error list and whether an exception left the loop
process_row(b, record, index, user_id, st) ==
    IF record.name = <<>> \/ record.quantity <= 0
    THEN [st EXCEPT !.errors = Append(@, RowError(index, "Invalid name or quantity"))]
    ELSE IF \/ record.cost_price < 0 \/ record.selling_price < 0
            \/ record.total_value < 0 \/ record.profit < 0
    THEN [st EXCEPT !.errors = Append(@, RowError(index, "Financial values cannot be negative"))]
    ELSE IF record.selling_price <= record.cost_price
    THEN [st EXCEPT !.errors =
              Append(@, RowError(index, "Selling price should be greater than cost price"))]
    ELSE IF AddProductCallRaises
    THEN IF RowHandlerRaises
         THEN [st EXCEPT !.raised = TRUE]
         ELSE [st EXCEPT !.errors = Append(@, RowError(index, "Error processing row"))]
    ELSE LET normalized_name == normalize_product_name(record.name)
             applied == add_products(b, st.products, record.name, record.quantity, user_id)
         IN  IF normalized_name \in st.existing
             THEN [st EXCEPT !.products = applied, !.updated = @ + 1]
             ELSE [st EXCEPT !.products = applied, !.imported = @ + 1,
                             !.existing = @ \cup {normalized_name}]

RECURSIVE process_rows(_, _, _, _, _)
process_rows(b, records, index, user_id, st) ==
    IF index > Len(records) \/ st.raised THEN st
    ELSE process_rows(b, records, index + 1, user_id,
                      process_row(b, records[index], index, user_id, st))

\* process_excel_file: what it returns and the products collection it leaves
process_excel_file(b, storage, file, user_id) ==
    LET missing_columns == required_columns \ file.columns
        records == Records(file)
        start == [products |-> storage,
                  existing |-> existing_products(b, storage, user_id),
                  imported |-> 0, updated |-> 0, errors |-> <<>>, raised |-> FALSE]
        end == process_rows(b, records, 1, user_id, start)
    IN  IF missing_columns # {}
        THEN [result |-> ImportResult(FALSE, "Missing required columns", 0, 0, <<>>),
              products |-> storage]
        ELSE IF DerivingRaises(file) \/ ~HasColumns(file, {"name", "quantity"})
        THEN [result |-> ImportResult(FALSE, "Error processing Excel file", 0, 0, <<>>),
              products |-> storage]
        ELSE IF Len(records) = 0
        THEN [result |-> ImportResult(FALSE, "No valid data found in Excel file", 0, 0, <<>>),
              products |-> storage]
        ELSE IF end.raised
        THEN [result |-> ImportResult(FALSE, "Error processing Excel file", 0, 0, <<>>),
              products |-> end.products]
        ELSE [result |-> ImportResult(TRUE, "", end.imported, end.updated, end.errors),
              products |-> end.products]

\* POST /api/inventory/import-excel
import_excel ==
    LET file == upload
        user_id == blueprint_user_id
        processed == process_excel_file(backend, products, file, user_id)
    IN  /\ IF file.extension = ""
           THEN /\ ires' = ImportResult(FALSE, "No Excel file provided", 0, 0, <<>>)
                /\ products' = products
                /\ Handled("import_excel", None, FALSE, None, "none", user_id, 400)
           ELSE IF file.extension \notin {".xlsx", ".xls"}
           THEN /\ ires' = ImportResult(FALSE, "Invalid file format", 0, 0, <<>>)
                /\ products' = products
                /\ Handled("import_excel", None, FALSE, None, "none", user_id, 400)
           ELSE /\ ires' = processed.result
                /\ products' = processed.products
                /\ Handled("import_excel", None, FALSE, None,
                           IF required_columns \subseteq file.columns THEN "get" ELSE "none",
                           user_id, 200)
        /\ UNCHANGED <<backend, products0, sales, last, pc, call, item, res, sessionVars,
                       userVars, parserVars, upload, auxVars>>


InitImport ==
    /\ backend \in {"mongo", "memory"}
    /\ Started
    /\ NoNormalizing
    /\ NoListing
    /\ NoFault
    /\ NoTally
    /\ products = <<>>
    /\ products0 = <<>>
    /\ sales = <<>>
    /\ last = NoCall
    /\ pc = [p \in Procs |-> "idle"]
    /\ call = [p \in Procs |-> NoCall]
    /\ item = [p \in Procs |-> NoDoc]
    /\ res = [p \in Procs |-> NoCall]
    /\ NoSessions
    /\ NoUsers
    /\ NoParsing
    /\ upload \in Uploads
    /\ ires = NoDoc

NextImport ==
    \/ \E name \in ImportNames, user_id \in Owners : add_product(name, 1, user_id)
    \/ import_excel

SpecImport == InitImport /\ [][NextImport]_vars
\* ------------------------------------------------------- name normalizer
\* the names handed to the normalizer: each is put together from a lead, a
\* stem, an ending and a trail
NameLeads == {<<>>, <<" ">>}
NameStems == { <<"k", "n", "i">>, <<"K", "n", "i">>, <<"a", "p", "p", "l", "e">>,
               <<"A", "p", "p", "l", "e">>, <<"A", "P", "P", "L", "E">>,
               <<"b", "e", "r", "r">>, <<"b", "o", "x">>, <<"B", "U">>,
               <<"t", "e", "a", " ", " ", "b", "a", "g">>, <<"t", "-", "4">>, <<>> }
NameEndings == { <<>>, <<"s">>, <<"e", "s">>, <<"i", "e", "s">>, <<"v", "e", "s">>,
                 <<"S">>, <<"!">> }
NameTrails == {<<>>, <<" ">>}
NormNames ==
    { lead \o stem \o ending \o trail :
        lead \in NameLeads, stem \in NameStems, ending \in NameEndings,
        trail \in NameTrails }

\* one call of normalize_product_name
normalize_name ==
    /\ nres = NoDoc
    /\ nres' = [normalized |-> normalize_product_name(nname)]
    /\ UNCHANGED <<backend, ledgerVars, sessionVars, req, userVars, parserVars,
                   importVars, nname, listing, startup, fault, tally>>

InitNormalizer ==
    /\ backend \in {"mongo", "memory"}
    /\ Started
    /\ products = <<>>
    /\ products0 = <<>>
    /\ sales = <<>>
    /\ last = NoCall
    /\ pc = [p \in Procs |-> "idle"]
    /\ call = [p \in Procs |-> NoCall]
    /\ item = [p \in Procs |-> NoDoc]
    /\ res = [p \in Procs |-> NoCall]
    /\ NoSessions
    /\ NoUsers
    /\ NoParsing
    /\ NoUpload
    /\ NoListing
    /\ NoFault
    /\ NoTally
    /\ nname \in NormNames
    /\ nres = NoDoc

NextNormalizer == normalize_name

SpecNormalizer == InitNormalizer /\ [][NextNormalizer]_vars
\* ------------------------------------------------------- ledger with listing
\* InventoryDatabase.get_inventory(user_id) called between the ledger calls
list_inventory(user_id) ==
    /\ listing' = [user_id |-> user_id,
                   result |-> get_inventory(backend, products, user_id)]
    /\ UNCHANGED <<backend, ledgerVars, sessionVars, req, userVars, parserVars,
                   importVars, normVars, startup, fault, tally>>

InitOwners ==
    /\ backend \in {"mongo", "memory"}
    /\ Started
    /\ NoNormalizing
    /\ NoListing
    /\ NoFault
    /\ NoTally
    /\ products = <<>>
    /\ products0 = products
    /\ sales = <<>>
    /\ last = NoCall
    /\ pc = [p \in Procs |-> "idle"]
    /\ call = [p \in Procs |-> NoCall]
    /\ item = [p \in Procs |-> NoDoc]
    /\ res = [p \in Procs |-> NoCall]
    /\ NoSessions
    /\ NoUsers
    /\ NoParsing
    /\ NoUpload

NextOwners ==
    \/ \E name \in Names, quantity \in 1..MaxQty, user_id \in Owners :
          add_product(name, quantity, user_id)
    \/ \E name \in Names, quantity \in 1..MaxQty, user_id \in Owners :
          sell_product(name, quantity, user_id)
    \/ \E name \in Names, quantity \in 1..MaxQty, user_id \in Owners :
          delete_product(name, quantity, user_id)
    \/ \E user_id \in Owners : list_inventory(user_id)

SpecOwners == InitOwners /\ [][NextOwners]_vars
\* ---------------------------------------------------- raising backend access
\* A MongoDB access can raise (a pymongo error: the server went away, a
\* timeout).  The raising_ actions run a call in which the k-th backend access
\* raises: the accesses before it have taken effect, the raising one has not.

\* the backend accesses each call makes, in program order
add_accesses(storage, name, user_id) ==
    IF find_one(storage, Query(name, user_id)) # NoDoc
    THEN <<"find_one", "update_one">>
    ELSE <<"find_one", "insert_one">>

sell_accesses(storage, name, quantity, user_id) ==
    IF sell_result(storage, name, quantity, user_id).success
    THEN <<"find_one", "update_one", "insert_one">>
    ELSE <<"find_one">>

delete_accesses(storage, name, quantity, user_id) ==
    IF ~delete_result(storage, name, quantity, user_id).success
    THEN <<"find_one">>
    ELSE IF find_one(update_one(storage, Query(name, user_id), -quantity),
                     Query(name, user_id)).quantity = 0
         THEN <<"find_one", "update_one", "find_one", "delete_one">>
         ELSE <<"find_one", "update_one", "find_one">>

create_user_accesses(b, storage, username, email, password) ==
    IF username = <<>> \/ email = <<>> \/ password = "" \/ ~EmailFormat(email)
    THEN <<>>
    ELSE IF find_one_or(b, storage, {[username |-> username], [email |-> email]}) # NoDoc
         THEN <<"find_one">>
         ELSE <<"find_one", "insert_one">>

\* the calls whose backend accesses all lie inside "try: ... except Exception"
Caught_NotDeleteSession ==
    {"add", "sell", "delete", "list", "create_user", "authenticate",
     "create_session", "validate_session"}

Caught ==
    {"add", "sell", "delete", "list", "create_user", "authenticate",
     "create_session", "validate_session", "delete_session"}

\* what the caller gets when access k of the call raises: the except branch
\* returns {"success": False, "error": str(e)}; outside a try block the
\* exception reaches the caller and nothing is returned
Raised(op, accesses, k) ==
    [op |-> op, access |-> accesses[k], at |-> k,
     raised |-> op \notin Caught,
     success |-> FALSE,
     error |-> IF op \in Caught THEN "str(e)" ELSE ""]

raising_add_product(name, quantity, user_id, k) ==
    LET accesses == add_accesses(products, name, user_id) IN
    /\ backend = "mongo"
    /\ k \in 1..Len(accesses)
    /\ fault' = Raised("add", accesses, k)
    /\ last' = Fail("add", name, quantity, user_id, fault'.error, 0)
    /\ UNCHANGED <<backend, products, products0, sales, pc, call, item, res,
                   sessionVars, req, userVars, parserVars, importVars,
                   normVars, listing, startup, tally>>

\* the $inc of update_one is in place when the insert into sales raises
raising_sell_product(name, quantity, user_id, k) ==
    LET accesses == sell_accesses(products, name, quantity, user_id) IN
    /\ backend = "mongo"
    /\ k \in 1..Len(accesses)
    /\ products' = IF k > 2 THEN update_one(products, Query(name, user_id), -quantity)
                   ELSE products
    /\ fault' = Raised("sell", accesses, k)
    /\ last' = Fail("sell", name, quantity, user_id, fault'.error, 0)
    /\ UNCHANGED <<backend, products0, sales, pc, call, item, res,
                   sessionVars, req, userVars, parserVars, importVars,
                   normVars, listing, startup, tally>>

\* the $inc of update_one is in place when the second find_one or the
\* delete_one raises
raising_delete_product(name, quantity, user_id, k) ==
    LET accesses == delete_accesses(products, name, quantity, user_id) IN
    /\ backend = "mongo"
    /\ k \in 1..Len(accesses)
    /\ products' = IF k > 2 THEN update_one(products, Query(name, user_id), -quantity)
                   ELSE products
    /\ fault' = Raised("delete", accesses, k)
    /\ last' = Fail("delete", name, quantity, user_id, fault'.error, 0)
    /\ UNCHANGED <<backend, products0, sales, pc, call, item, res,
                   sessionVars, req, userVars, parserVars, importVars,
                   normVars, listing, startup, tally>>

\* For the calls below nothing is stored before the access that raises;
\* fault holds what the call returned
raising_get_inventory(user_id) ==
    /\ backend = "mongo"
    /\ fault' = Raised("list", <<"find">>, 1)
    /\ UNCHANGED <<backend, ledgerVars, sessionVars, req, userVars, parserVars,
                   importVars, normVars, listing, startup, tally>>

raising_create_user(username, email, password, k) ==
    LET accesses == create_user_accesses(backend, users, username, email, password) IN
    /\ backend = "mongo"
    /\ k \in 1..Len(accesses)
    /\ fault' = Raised("create_user", accesses, k)
    /\ UNCHANGED <<backend, ledgerVars, sessionVars, req, userVars, parserVars,
                   importVars, normVars, listing, startup, tally>>

raising_authenticate_user(username, password) ==
    /\ backend = "mongo"
    /\ fault' = Raised("authenticate", <<"find_one">>, 1)
    /\ UNCHANGED <<backend, ledgerVars, sessionVars, req, userVars, parserVars,
                   importVars, normVars, listing, startup, tally>>

raising_create_session(user_id, username) ==
    /\ backend = "mongo"
    /\ fault' = Raised("create_session", <<"insert_one">>, 1)
    /\ UNCHANGED <<backend, ledgerVars, sessionVars, req, userVars, parserVars,
                   importVars, normVars, listing, startup, tally>>

raising_validate_session(session_token) ==
    /\ backend = "mongo"
    /\ fault' = Raised("validate_session", <<"find_one">>, 1)
    /\ UNCHANGED <<backend, ledgerVars, sessionVars, req, userVars, parserVars,
                   importVars, normVars, listing, startup, tally>>

raising_delete_session(session_token) ==
    /\ backend = "mongo"
    /\ fault' = Raised("delete_session", <<"delete_one">>, 1)
    /\ UNCHANGED <<backend, ledgerVars, sessionVars, req, userVars, parserVars,
                   importVars, normVars, listing, startup, tally>>

\* the calls are made for one product owner and one account
FaultOwners == {"u1"}
FaultLogins == {Al}
FaultEmails == {AlMail}
FaultPasswords == {"pw1"}
FaultSalts == {"s1"}
FaultUsernames == {"alice"}

\* the account is either not yet registered or already stored
InitFaults ==
    /\ backend \in {"mongo", "memory"}
    /\ Started
    /\ NoNormalizing
    /\ NoListing
    /\ NoFault
    /\ NoTally
    /\ products = <<>>
    /\ products0 = products
    /\ sales = <<>>
    /\ last = NoCall
    /\ pc = [p \in Procs |-> "idle"]
    /\ call = [p \in Procs |-> NoCall]
    /\ item = [p \in Procs |-> NoDoc]
    /\ res = [p \in Procs |-> NoCall]
    /\ NoSessions
    /\ users \in {<<>>} \cup
          {<<user_data(<<>>, username, email, password, salt)>> :
              username \in FaultLogins, email \in FaultEmails,
              password \in FaultPasswords, salt \in FaultSalts}
    /\ ures = NoUserCall
    /\ NoParsing
    /\ NoUpload

NextFaults ==
    \/ \E name \in Names, quantity \in 1..MaxQty, user_id \in FaultOwners :
          \/ add_product(name, quantity, user_id)
          \/ sell_product(name, quantity, user_id)
          \/ delete_product(name, quantity, user_id)
          \/ \E k \in 1..2 : raising_add_product(name, quantity, user_id, k)
          \/ \E k \in 1..3 : raising_sell_product(name, quantity, user_id, k)
          \/ \E k \in 1..4 : raising_delete_product(name, quantity, user_id, k)
    \/ \E user_id \in FaultOwners : raising_get_inventory(user_id)
    \/ \E username \in FaultLogins, email \in FaultEmails, password \in FaultPasswords :
          \/ \E k \in 1..2 : raising_create_user(username, email, password, k)
          \/ raising_authenticate_user(username, password)
    \/ \E user_id \in FaultOwners, username \in FaultUsernames :
          raising_create_session(user_id, username)
    \/ \E session_token \in Tokens :
          \/ raising_validate_session(session_token)
          \/ raising_delete_session(session_token)

SpecFaults == InitFaults /\ [][NextFaults]_vars

\* ------------------------------------------------------------------ startup
\* InventoryDatabase.__init__: DEV_MODE returns with the in-memory
\* collections; otherwise the MongoDB collections are kept when the ping and
\* the index creation succeed, and when one of them raises the except branch
\* installs the in-memory collections ("Falling back to in-memory storage").
\* __init__ raises in none of the three cases, so get_db never takes its
\* except branch and never returns a MockDatabase.
Collections(outcome) == IF outcome = "connected" THEN "mongo" ELSE "memory"

InitStartup ==
    /\ startup \in {"connected", "dev_mode", "connect_failed"}
    /\ backend = Collections(startup)
    /\ NoNormalizing
    /\ NoListing
    /\ NoFault
    /\ NoTally
    /\ products = <<>>
    /\ products0 = products
    /\ sales = <<>>
    /\ last = NoCall
    /\ pc = [p \in Procs |-> "idle"]
    /\ call = [p \in Procs |-> NoCall]
    /\ item = [p \in Procs |-> NoDoc]
    /\ res = [p \in Procs |-> NoCall]
    /\ NoSessions
    /\ NoUsers
    /\ NoParsing
    /\ NoUpload

NextStartup ==
    \/ \E name \in Names, quantity \in 1..MaxQty, user_id \in FaultOwners :
          \/ add_product(name, quantity, user_id)
          \/ sell_product(name, quantity, user_id)
          \/ delete_product(name, quantity, user_id)
    \/ \E user_id \in FaultOwners : list_inventory(user_id)
    \/ \E username \in FaultLogins, email \in FaultEmails, password \in FaultPasswords :
          \/ \E salt \in FaultSalts : create_user(username, email, password, salt)
          \/ authenticate_user(username, password)
    \/ \E user_id \in FaultOwners, username \in FaultUsernames :
          create_session(user_id, username)
    \/ \E session_token \in Tokens :
          \/ validate_session(session_token)
          \/ delete_session(session_token)

SpecStartup == InitStartup /\ [][NextStartup]_vars
\* ------------------------------------------------- login, command, listing
\* POST /api/auth/signup: the fields are stripped, then create_user
signup(username, email, password, salt) ==
    /\ strip(username) # <<>> /\ strip(email) # <<>> /\ password # ""
    /\ create_user(strip(username), strip(email), password, salt)

\* POST /api/auth/login: authenticate_user and, when it succeeds,
\* create_session with the user_id and username it returned
login(username, password) ==
    LET auth_result == authenticate_user_result(backend, users, strip(username), password) IN
    /\ strip(username) # <<>> /\ password # ""
    /\ ures' = auth_result
    /\ IF auth_result.success
       THEN \E session_token \in Tokens :
               /\ issued[session_token] = NoDoc
               /\ sessions' = insert_one(sessions,
                     session_data(session_token, auth_result.user_id, auth_result.username))
               /\ issued' = [issued EXCEPT ![session_token] =
                                [user_id |-> auth_result.user_id,
                                 username |-> auth_result.username, created_at |-> now]]
               /\ sres' = AuthResult("create", session_token, TRUE, "",
                                     auth_result.user_id, auth_result.username)
               /\ Handled("login", session_token, FALSE, None, "none", None, 200)
       ELSE /\ UNCHANGED <<sessions, issued, sres>>
            /\ Handled("login", None, FALSE, None, "none", None, 401)
    /\ UNCHANGED <<backend, ledgerVars, now, deleted, expiredSeen, users,
                   parserVars, importVars, auxVars>>

InitLogin ==
    /\ backend \in {"mongo", "memory"}
    /\ Started
    /\ NoNormalizing
    /\ NoListing
    /\ NoFault
    /\ NoTally
    /\ products = <<>>
    /\ products0 = products
    /\ sales = <<>>
    /\ last = NoCall
    /\ pc = [p \in Procs |-> "idle"]
    /\ call = [p \in Procs |-> NoCall]
    /\ item = [p \in Procs |-> NoDoc]
    /\ res = [p \in Procs |-> NoCall]
    /\ NoSessions
    /\ NoUsers
    /\ NoParsing
    /\ NoUpload

NextLogin ==
    \/ \E username \in FaultLogins, email \in FaultEmails, password \in FaultPasswords,
          salt \in FaultSalts :
          signup(username, email, password, salt)
    \/ \E username \in FaultLogins, password \in Passwords : login(username, password)
    \/ \E token \in Tokens \cup {None}, text \in Texts : process_command(token, text)
    \/ \E token \in Tokens \cup {None} : get_inventory_route(token)

SpecLogin == InitLogin /\ [][NextLogin]_vars
\* ------------------------------------------------------ counted ledger calls
\* Ledger calls made one at a time for one owner scope; tally keeps, for
\* each product name, the quantities of the calls that returned success
Counts == [added |-> 0, sold |-> 0, deleted |-> 0]

tallied_add_product(name, quantity) ==
    /\ tally.count[name].added + quantity <= MaxAdded
    /\ WithinBounds("add", name, quantity, tally.scope)
    /\ Ledger("add", name, quantity, tally.scope)
    /\ tally' = IF last'.success
                THEN [tally EXCEPT !.count[name].added = @ + quantity]
                ELSE tally
    /\ UNCHANGED <<backend, products0, pc, call, item, res, sessionVars, req,
                   userVars, parserVars, importVars, normVars, listing, startup, fault>>

tallied_sell_product(name, quantity) ==
    /\ WithinBounds("sell", name, quantity, tally.scope)
    /\ Ledger("sell", name, quantity, tally.scope)
    /\ tally' = IF last'.success
                THEN [tally EXCEPT !.count[name].sold = @ + quantity]
                ELSE tally
    /\ UNCHANGED <<backend, products0, pc, call, item, res, sessionVars, req,
                   userVars, parserVars, importVars, normVars, listing, startup, fault>>

tallied_delete_product(name, quantity) ==
    /\ Ledger("delete", name, quantity, tally.scope)
    /\ tally' = IF last'.success
                THEN [tally EXCEPT !.count[name].deleted = @ + quantity]
                ELSE tally
    /\ UNCHANGED <<backend, products0, pc, call, item, res, sessionVars, req,
                   userVars, parserVars, importVars, normVars, listing, startup, fault>>

\* an empty ledger, and the owner scope all the calls are made with
InitTally ==
    /\ backend \in {"mongo", "memory"}
    /\ Started
    /\ NoNormalizing
    /\ NoListing
    /\ NoFault
    /\ tally \in {[scope |-> user_id, count |-> [name \in Names |-> Counts]] :
                     user_id \in Owners}
    /\ products = <<>>
    /\ products0 = products
    /\ sales = <<>>
    /\ last = NoCall
    /\ pc = [p \in Procs |-> "idle"]
    /\ call = [p \in Procs |-> NoCall]
    /\ item = [p \in Procs |-> NoDoc]
    /\ res = [p \in Procs |-> NoCall]
    /\ NoSessions
    /\ NoUsers
    /\ NoParsing
    /\ NoUpload

NextTally ==
    \E name \in Names, quantity \in 1..MaxQty :
        \/ tallied_add_product(name, quantity)
        \/ tallied_sell_product(name, quantity)
        \/ tallied_delete_product(name, quantity)

SpecTally == InitTally /\ [][NextTally]_vars
\* ------------------------------------------------------- storage contract
\* Ledger, Auth and Session calls made one after another on one
\* InventoryDatabase, on either backend
InitContract == InitLogin

NextContract ==
    \/ \E name \in Names, user_id \in FaultOwners \cup {None} :
          add_product(name, 1, user_id)
    \/ \E user_id \in FaultOwners \cup {None} : list_inventory(user_id)
    \/ \E username \in FaultLogins, email \in FaultEmails, password \in FaultPasswords,
          salt \in FaultSalts :
          create_user(username, email, password, salt)
    \/ \E username \in FaultLogins \cup FaultEmails, password \in FaultPasswords :
          authenticate_user(username, password)
    \/ \E user_id \in FaultOwners, username \in FaultUsernames :
          create_session(user_id, username)
    \/ \E session_token \in Tokens : delete_session(session_token)

SpecContract == InitContract /\ [][NextContract]_vars
\* ===================================================== ledger properties
\* the records a call on (name, user_id) addresses: the same name and, when
\* an owner is given, the same owner
Addresses(doc, name, user_id) ==
    /\ doc.name = name
    /\ user_id # None => ("user_id" \in DOMAIN doc /\ doc.user_id = user_id)

\* index of the first record of storage the key addresses, 0 if none
KeyIndex(storage, name, user_id) ==
    IF \E i \in 1..Len(storage) : Addresses(storage[i], name, user_id)
    THEN CHOOSE i \in 1..Len(storage) :
            /\ Addresses(storage[i], name, user_id)
            /\ \A j \in 1..(i - 1) : ~Addresses(storage[j], name, user_id)
    ELSE 0

Without(storage, k) ==
    [i \in 1..(Len(storage) - 1) |-> IF i < k THEN storage[i] ELSE storage[i + 1]]

\* C2: with ledger calls running one at a time, after any sequence of add,
\* sell and delete calls with positive quantities the stored quantity of
\* every product record is >= 0.
C2_QuantityNeverNegative ==
    \A i \in 1..Len(products) : products[i].quantity >= 0

\* C2 witness: a sell has taken a record's whole stock
C2_Witness ==
    /\ last.op = "sell" /\ last.success
    /\ \E i \in 1..Len(products) :
          Addresses(products[i], last.name, last.user_id) /\ products[i].quantity = 0

\* C3: a sell or delete whose precondition fails changes nothing: with no
\* record for the key it returns not-found, with qty above the current
\* quantity it returns insufficient-quantity reporting the current quantity;
\* products and sale log are as before the call.
C3_FailedReductionStep ==
    (last'.op \in {"sell", "delete"} /\ ~last'.success) =>
        LET k == KeyIndex(products, last'.name, last'.user_id) IN
        /\ products' = products
        /\ sales' = sales
        /\ IF k = 0 THEN last'.error = "Product not found"
           ELSE /\ last'.error \in {"Insufficient stock", "Insufficient quantity"}
                /\ last'.available = products[k].quantity
                /\ last'.quantity > products[k].quantity

C3_FailedReductionChangesNothing == [][C3_FailedReductionStep]_vars

\* C3 witness: an insufficient-quantity failure against an existing record
C3_Witness ==
    /\ last.op \in {"sell", "delete"} /\ ~last.success
    /\ last.error \in {"Insufficient stock", "Insufficient quantity"}
    /\ last.available >= 1

\* C4: add on a key that has a record increases that record's quantity by
\* qty and creates no second record; on a key with no record it creates
\* exactly one record with quantity qty.
C4_AddStep ==
    (last'.op = "add") =>
        LET k == KeyIndex(products, last'.name, last'.user_id) IN
        /\ last'.success
        /\ IF k # 0
           THEN products' = [products EXCEPT ![k].quantity = @ + last'.quantity]
           ELSE /\ Len(products') = Len(products) + 1
                /\ SubSeq(products', 1, Len(products)) = products
                /\ Addresses(products'[Len(products')], last'.name, last'.user_id)
                /\ products'[Len(products')].quantity = last'.quantity

C4_AddMergesOrCreates == [][C4_AddStep]_vars

\* C5: a successful delete with qty equal to the current quantity removes the
\* record, so a following list(owner) does not contain that name; with qty
\* below the current quantity the record remains with current - qty.
C5_DeleteStep ==
    (last'.op = "delete" /\ last'.success) =>
        LET k == KeyIndex(products, last'.name, last'.user_id) IN
        /\ k # 0
        /\ IF last'.quantity = products[k].quantity
           THEN /\ products' = Without(products, k)
                /\ LET listed == get_inventory(backend', products', last'.user_id).products IN
                   \A i \in 1..Len(listed) : listed[i].name # last'.name
           ELSE products' = [products EXCEPT ![k].quantity = @ - last'.quantity]

C5_DeleteRemovesAtZero == [][C5_DeleteStep]_vars

\* C5 witness: a delete took the whole stock and the record is gone
C5_Witness ==
    /\ last.op = "delete" /\ last.success
    /\ KeyIndex(products, last.name, last.user_id) = 0

\* C6: after any completed reduction (sell or delete) no product record with
\* quantity exactly 0 is retained.
C6_NoZeroRowAfterReduction ==
    (last.op \in {"sell", "delete"} /\ last.success) =>
        \A i \in 1..Len(products) : products[i].quantity # 0

\* C7: the sale log is append-only with one record per successful sell, which
\* carries the sold name and quantity; add, delete and failed sells append
\* none and no record is ever changed or removed.
C7_SaleLogStep ==
    IF last'.op = "sell" /\ last'.success
    THEN /\ Len(sales') = Len(sales) + 1
         /\ SubSeq(sales', 1, Len(sales)) = sales
         /\ sales'[Len(sales')].name = last'.name
         /\ sales'[Len(sales')].quantity = last'.quantity
         /\ Get(sales'[Len(sales')], "user_id") = last'.user_id
    ELSE sales' = sales

C1_ConcurrentSellsOneWins ==
    LET k == KeyIndex(products0, call[1].name, call[1].user_id) IN
    ( /\ pc[1] = "done" /\ pc[2] = "done"
      /\ call[1].op = "sell" /\ call[2].op = "sell"
      /\ call[1].name = call[2].name /\ call[1].user_id = call[2].user_id
      /\ k # 0
      /\ call[1].quantity <= products0[k].quantity
      /\ call[2].quantity <= products0[k].quantity
      /\ call[1].quantity + call[2].quantity > products0[k].quantity )
    => \E w \in Procs : \E l \in Procs \ {w} :
          /\ res[w].success
          /\ ~res[l].success /\ res[l].error = "Insufficient stock"
          /\ products[k].quantity = products0[k].quantity - call[w].quantity
          /\ Len(sales) = 1
\* ====================================================== session properties
\* C9: validate_session(token) succeeds if and only if a session record with
\* that token exists, is active, and its expires_at is not earlier than now;
\* on success it returns exactly the user_id and username that were given to
\* create_session for that token.
C9_ValidateStep ==
    (sres' # sres /\ sres'.op = "validate") =>
        /\ sres'.success <=>
              \E i \in 1..Len(sessions) :
                  /\ sessions[i].session_token = sres'.token
                  /\ sessions[i].is_active
                  /\ sessions[i].expires_at >= now
        /\ sres'.success =>
              /\ issued[sres'.token] # NoDoc
              /\ sres'.user_id = issued[sres'.token].user_id
              /\ sres'.username = issued[sres'.token].username

C9_ValidateIffLiveSession == [][C9_ValidateStep]_vars

\* C9 witness: a validation succeeded and one failed for expiry
C9_Witness ==
    /\ sres.op = "validate" /\ sres.success
    /\ expiredSeen # {}

\* C10: for a session created at time t and not deleted, validate_session
\* succeeds at every time up to t + 24h and fails at every time after it,
\* reaped or not; once it has failed for expiry it never succeeds again.
C10_TwentyFourHourWindow ==
    ( /\ sres.op = "validate"
      /\ issued[sres.token] # NoDoc
      /\ sres.token \notin deleted )
    => /\ sres.success <=> (sres.at <= issued[sres.token].created_at + 24)
       /\ sres.success => sres.token \notin expiredSeen

\* C10 witness: validation of a session that was reaped after it expired
C10_Witness ==
    /\ sres.op = "validate" /\ ~sres.success
    /\ sres.error = "Invalid session token"
    /\ issued[sres.token] # NoDoc
    /\ sres.token \notin deleted
    /\ sres.at > issued[sres.token].created_at + 24
\* C11: delete_session(token) on an existing session removes it and reports
\* success, and validate_session(token) fails in every later state; on a
\* token with no session it changes nothing and reports "Session not found",
\* so a second call leaves the store as the first one left it.
C11_DeleteStep ==
    (sres' # sres /\ sres'.op = "delete") =>
        IF find_one(sessions, [session_token |-> sres'.token]) # NoDoc
        THEN /\ sres'.success
             /\ find_one(sessions', [session_token |-> sres'.token]) = NoDoc
        ELSE /\ ~sres'.success
             /\ sres'.error = "Session not found"
             /\ sessions' = sessions

C11_ValidateAfterDeleteStep ==
    (sres' # sres /\ sres'.op = "validate" /\ sres'.token \in deleted) =>
        ~sres'.success

C11_DeleteSessionContract ==
    [][C11_DeleteStep /\ C11_ValidateAfterDeleteStep]_vars

\* C11 on the MongoDB backend alone
C11_DeleteSessionContractMongo ==
    [][(backend = "mongo") => (C11_DeleteStep /\ C11_ValidateAfterDeleteStep)]_vars
\* ========================================================= user properties
\* C12: after any sequence of create_user calls, no two stored users share
\* a username and no two share an email; a create_user whose username or
\* email already exists is rejected and stores nothing.
C12_NoSharedUsernameOrEmail ==
    \A i, j \in 1..Len(users) :
        i # j => /\ users[i].username # users[j].username
                 /\ users[i].email # users[j].email

\* C12 on the MongoDB backend alone
C12_NoSharedUsernameOrEmailMongo ==
    (backend = "mongo") => C12_NoSharedUsernameOrEmail

\* C13: authenticate_user(id, password) succeeds exactly when a user exists
\* whose username or email equals id, that user is active, and password is
\* the one given to create_user; otherwise the error is "User not found" if
\* there is no such user, "Account is deactivated" if the user is inactive,
\* "Invalid password" if the password differs, in that order.
C13_AuthenticateStep ==
    (ures' # ures /\ ures'.op = "authenticate") =>
        LET known == {i \in 1..Len(users) :
                         users[i].username = ures'.id \/ users[i].email = ures'.id}
            live == {i \in known : users[i].is_active}
            good == {i \in live : users[i].password_hash[1] = ures'.password}
        IN  /\ ures'.success <=> good # {}
            /\ ~ures'.success =>
                  ures'.error = IF known = {} THEN "User not found"
                                ELSE IF live = {} THEN "Account is deactivated"
                                ELSE "Invalid password"

C13_AuthenticateOutcome == [][C13_AuthenticateStep]_vars

\* C13 on the MongoDB backend alone
C13_AuthenticateOutcomeMongo ==
    [][(backend = "mongo") => C13_AuthenticateStep]_vars
\* ======================================================= parser properties
\* the three verbs and the action each stands for
VerbActions == { [verb |-> <<"a", "d", "d">>, action |-> "add"],
                 [verb |-> <<"s", "o", "l", "d">>, action |-> "sell"],
                 [verb |-> <<"d", "e", "l", "e", "t", "e">>, action |-> "delete"] }

\* t is verb, whitespace up to i, digits up to j, whitespace up to k, and
\* something after k
SplitsAt(t, verb, i, j, k) ==
    /\ StartsWith(t, verb)
    /\ Len(verb) < i /\ i < j /\ j < k /\ k < Len(t)
    /\ \A x \in (Len(verb) + 1)..i : IsSpace(t[x])
    /\ \A x \in (i + 1)..j : IsDigit(t[x])
    /\ \A x \in (j + 1)..k : IsSpace(t[x])

\* the lower-cased and trimmed text has the form '<verb> <n> <rest>' with n
\* positive and rest non-empty
WellFormed(t) ==
    \E va \in VerbActions, i, j, k \in 1..Len(t) :
        /\ SplitsAt(t, va.verb, i, j, k)
        /\ ToInt(SubSeq(t, i + 1, j)) > 0
        /\ strip(SubSeq(t, k + 1, Len(t))) # <<>>

\* C14: for any text that after lower-casing and trimming has the form
\* '<verb> <n> <rest>' with verb add, sold or delete, n a positive integer
\* and rest non-empty, the parser returns the action add, sell or delete
\* respectively, quantity n, and the trimmed rest as the product name.
C14_ParsesWellFormedText ==
    pres # NoDoc =>
        LET t == strip(lower(ptext)) IN
        \A va \in VerbActions, i, j, k \in 1..Len(t) :
            ( /\ SplitsAt(t, va.verb, i, j, k)
              /\ ToInt(SubSeq(t, i + 1, j)) > 0
              /\ strip(SubSeq(t, k + 1, Len(t))) # <<>> )
            => /\ pres.ok
               /\ pres.action = va.action
               /\ pres.quantity = ToInt(SubSeq(t, i + 1, j))
               /\ pres.product = strip(SubSeq(t, k + 1, Len(t)))

\* C14, amended: for any text that after lower-casing and trimming has the
\* form '<verb> <n> <rest>' with verb add, sold or delete, n a positive
\* integer and rest non-empty and holding no line break, the parser returns
\* the action add, sell or delete respectively, quantity n, and the trimmed
\* rest as the product name.
C14_ParsesWellFormedLine ==
    pres # NoDoc =>
        LET t == strip(lower(ptext)) IN
        \A va \in VerbActions, i, j, k \in 1..Len(t) :
            ( /\ SplitsAt(t, va.verb, i, j, k)
              /\ ToInt(SubSeq(t, i + 1, j)) > 0
              /\ strip(SubSeq(t, k + 1, Len(t))) # <<>>
              /\ \A x \in (k + 1)..Len(t) : t[x] # "\n" )
            => /\ pres.ok
               /\ pres.action = va.action
               /\ pres.quantity = ToInt(SubSeq(t, i + 1, j))
               /\ pres.product = strip(SubSeq(t, k + 1, Len(t)))

\* C14 witness: "Add", a tab, "07", a line break and "of tea" were parsed
C14_Witness ==
    /\ pres # NoDoc
    /\ ptext = <<"A", "d", "d", "\t", "0", "7", "\n", "o", "f", " ", "t", "e", "a">>
    /\ pres.ok
    /\ pres.quantity = 7
    /\ pres.product = <<"o", "f", " ", "t", "e", "a">>

\* C15: the parser returns an error and never a command whenever the text
\* does not begin with one of the three verbs followed by a quantity and a
\* product, or the quantity is zero or negative; 'add 0 milk', 'add -1 milk'
\* and 'buy 3 eggs' all fail; every command returned has quantity >= 1 and a
\* non-empty product.
C15_ErrorUnlessWellFormed ==
    pres # NoDoc =>
        /\ ~WellFormed(strip(lower(ptext))) => ~pres.ok
        /\ ptext \in { <<"a", "d", "d", " ", "0", " ">> \o Milk,
                       <<"a", "d", "d", " ", "-", "1", " ">> \o Milk,
                       <<"b", "u", "y", " ", "3", " ">> \o Eggs } => ~pres.ok
        /\ ~pres.ok => pres.error # ""
        /\ pres.ok => /\ pres.quantity >= 1
                      /\ pres.product # <<>>
                      /\ pres.error = ""

\* C15 witness: 'add 0 milk' was refused for its quantity
C15_Witness ==
    /\ pres # NoDoc
    /\ ptext = <<"a", "d", "d", " ", "0", " ">> \o Milk
    /\ ~pres.ok
    /\ pres.error = "Quantity must be greater than 0"
\* ======================================================= import properties
FourRequired == {"name", "quantity", "cost_price", "selling_price"}

\* the rows left after those without a name or a quantity are dropped
ProcessedRows(file) ==
    SelectSeq(file.rows, LAMBDA row : row.blank \cap {"name", "quantity"} = {})

\* quantity > 0, no negative financial field, selling_price > cost_price
ValidRow(row) ==
    /\ row.name # <<>> /\ row.quantity > 0
    /\ row.cost_price >= 0 /\ row.selling_price >= 0
    /\ row.total_value >= 0 /\ row.profit >= 0
    /\ row.selling_price > row.cost_price

ValidRows(file) ==
    {i \in 1..Len(ProcessedRows(file)) : ValidRow(ProcessedRows(file)[i])}

InvalidRows(file) ==
    {i \in 1..Len(ProcessedRows(file)) : ~ValidRow(ProcessedRows(file)[i])}

\* the import handled a spreadsheet that has the four required columns
ImportedBatch ==
    /\ ires' # ires
    /\ upload.extension = ".xlsx"
    /\ FourRequired \subseteq upload.columns

\* the normalized names of the products the ledger held before the import
SnapshotNames == {normalize_product_name(products[k].name) : k \in 1..Len(products)}

\* C16: in a bulk import one invalid row never aborts the batch: every valid
\* row before and after it is applied to the ledger and is present after the
\* import returns.
C16_ValidRowsAppliedStep ==
    ImportedBatch =>
        \A i \in ValidRows(upload) :
            find_one(products', [name |-> ProcessedRows(upload)[i].name]) # NoDoc

C16_ValidRowsApplied == [][C16_ValidRowsAppliedStep]_vars

\* C17: for every batch that has the four required columns and at least one
\* row the import returns success=true, and imported + updated + number of
\* errors = number of processed rows, each invalid row giving exactly one
\* error and each valid row exactly one count.
C17_ReportAddsUpStep ==
    (ImportedBatch /\ Len(upload.rows) >= 1) =>
        /\ ires'.success
        /\ ires'.imported + ires'.updated + Len(ires'.errors)
              = Len(ProcessedRows(upload))
        /\ Len(ires'.errors) = Cardinality(InvalidRows(upload))
        /\ ires'.imported + ires'.updated = Cardinality(ValidRows(upload))

C17_ReportAddsUp == [][C17_ReportAddsUpStep]_vars

\* C18: a valid row is counted as updated exactly when its normalized name
\* equals the normalized name of some product in the snapshot taken before
\* processing (row 'apple' against an existing 'Apples'); otherwise it is
\* counted as imported.  Stated for batches whose valid rows have pairwise
\* different normalized names.
C18_UpdatedIffInSnapshotStep ==
    ( /\ ImportedBatch
      /\ \A i, j \in ValidRows(upload) :
            i # j => normalize_product_name(ProcessedRows(upload)[i].name)
                       # normalize_product_name(ProcessedRows(upload)[j].name) )
    => /\ ires'.updated = Cardinality({i \in ValidRows(upload) :
              normalize_product_name(ProcessedRows(upload)[i].name) \in SnapshotNames})
       /\ ires'.imported = Cardinality({i \in ValidRows(upload) :
              normalize_product_name(ProcessedRows(upload)[i].name) \notin SnapshotNames})

C18_UpdatedIffInSnapshot == [][C18_UpdatedIffInSnapshotStep]_vars

\* C19: within one batch, when several valid rows have names with the same
\* normalized form and that form is not in the snapshot, the first such row
\* is counted as imported and every later one as updated.  Stated for
\* batches none of whose valid rows is in the snapshot.
C19_FirstImportedRestUpdatedStep ==
    ( /\ ImportedBatch
      /\ \A i \in ValidRows(upload) :
            normalize_product_name(ProcessedRows(upload)[i].name) \notin SnapshotNames )
    => /\ ires'.imported = Cardinality({normalize_product_name(ProcessedRows(upload)[i].name) :
                                           i \in ValidRows(upload)})
       /\ ires'.updated = Cardinality(ValidRows(upload)) - ires'.imported

C19_FirstImportedRestUpdated == [][C19_FirstImportedRestUpdatedStep]_vars

\* C20: if any of the four required columns is absent, the import rejects
\* the whole batch with success=false, for the missing columns, and leaves
\* the ledger unchanged: no row of the batch is applied or counted.
C20_MissingColumnRejectsStep ==
    ( /\ ires' # ires
      /\ upload.extension = ".xlsx"
      /\ ~(FourRequired \subseteq upload.columns) )
    => /\ ~ires'.success
       /\ ires'.message = "Missing required columns"
       /\ ires'.imported = 0 /\ ires'.updated = 0 /\ ires'.errors = <<>>
       /\ products' = products

C20_MissingColumnRejects == [][C20_MissingColumnRejectsStep]_vars

\* C20 witness: a sheet without the selling_price column, holding a row, was
\* rejected while the ledger held a product
C20_Witness ==
    /\ ires # NoDoc
    /\ upload.extension = ".xlsx"
    /\ "selling_price" \notin upload.columns
    /\ Len(upload.rows) = MaxRows
    /\ ~ires.success
    /\ products # <<>>
\* =================================================== normalizer properties
\* str.upper()
upper(text) ==
    [i \in 1..Len(text) |->
        IF \E k \in 1..26 : Lower[k] = text[i]
        THEN Upper[CHOOSE k \in 1..26 : Lower[k] = text[i]]
        ELSE text[i]]

\* what is left of a stem once the characters the normalizer drops are gone
Cleaned(text) == strip(CollapseSpaces(SelectSeq(text, IsPlain)))

\* C21: the normalizer strips one plural suffix with ies -> y and ves -> f
\* taking effect for names that end in them: normalize('Knives') = 'knife',
\* and a name ending in 'ies' normalizes to the stem followed by 'y'.
C21_IesAndVesRules ==
    nres # NoDoc =>
        LET t == strip(lower(nname))
            stem == SubSeq(t, 1, Len(t) - 3)
        IN  /\ nname = <<"K", "n", "i", "v", "e", "s">>
                  => nres.normalized = <<"k", "n", "i", "f", "e">>
            /\ EndsWith(t, <<"i", "e", "s">>) => nres.normalized = Cleaned(stem \o <<"y">>)
            /\ EndsWith(t, <<"v", "e", "s">>) => nres.normalized = Cleaned(stem \o <<"f">>)

\* C22: for every name x that does not end in 's', normalize(x),
\* normalize(upper-cased x) and normalize(x + 's') are all equal.
C22_CaseAndPluralS ==
    (nres # NoDoc /\ ~EndsWith(nname, <<"s">>)) =>
        /\ nres.normalized = normalize_product_name(upper(nname))
        /\ nres.normalized = normalize_product_name(nname \o <<"s">>)

\* C22, amended: for every name x whose lower-cased and trimmed form does
\* not end in 's', normalize(x), normalize(upper-cased x) and
\* normalize(x + 's') are all equal.
C22_CaseAndPluralSTrimmed ==
    (nres # NoDoc /\ ~EndsWith(strip(lower(nname)), <<"s">>)) =>
        /\ nres.normalized = normalize_product_name(upper(nname))
        /\ nres.normalized = normalize_product_name(nname \o <<"s">>)

\* C22 witness: 'Apple' was normalized to 'apple', as 'APPLE' and 'Apples' are
C22_Witness ==
    /\ nname = <<"A", "p", "p", "l", "e">>
    /\ nres = [normalized |-> <<"a", "p", "p", "l", "e">>]
    /\ normalize_product_name(<<"A", "P", "P", "L", "E">>) = nres.normalized
    /\ normalize_product_name(<<"A", "p", "p", "l", "e", "s">>) = nres.normalized
\* ===================================================== owner properties
\* the owner a record is stored under, None for a record without user_id
OwnerOf(doc) == Get(doc, "user_id")

\* C23: product uniqueness is on the (owner, name) pair: an add by an owner
\* succeeds whether or not another owner holds a record of that name and
\* leaves that owner a record of its own, and sequential adds never produce
\* two records with the same (owner, name).
C23_UniquePerOwnerAndName ==
    /\ \A i, j \in 1..Len(products) :
          (i # j /\ products[i].name = products[j].name) =>
              OwnerOf(products[i]) # OwnerOf(products[j])
    /\ (last.op = "add" /\ last.user_id # None) =>
          /\ last.success
          /\ \E i \in 1..Len(products) :
                /\ products[i].name = last.name
                /\ OwnerOf(products[i]) = last.user_id
                /\ products[i].quantity >= last.quantity
\* the records of storage stored under owner, in storage order
RecordsOf(storage, owner) == SelectSeq(storage, LAMBDA doc : OwnerOf(doc) = owner)

\* an add, sell or delete called with an owner leaves the records of every
\* other owner as they were
C24_MutationStep ==
    (listing' = listing /\ last'.user_id \in Users) =>
        \A other \in Users \ {last'.user_id} :
            RecordsOf(products', other) = RecordsOf(products, other)

\* a listing for an owner succeeds and holds exactly that owner's records
C24_ListStep ==
    (listing' # listing /\ listing'.user_id \in Users) =>
        /\ listing'.result.success
        /\ listing'.result.products = RecordsOf(products, listing'.user_id)

\* C24: for two distinct owners A and B, an add, sell or delete called with
\* owner A leaves every record of owner B unchanged, and list(A) returns
\* exactly the records whose owner is A and none of B's.
C24_OwnerIsolation == [][C24_MutationStep /\ C24_ListStep]_vars

\* the same with MongoDB as the backend
C24_OwnerIsolationMongo ==
    [][backend = "mongo" => (C24_MutationStep /\ C24_ListStep)]_vars

\* the mutation half alone, on either backend
C24_MutationsIsolated == [][C24_MutationStep]_vars
\* ============================================== error-handling properties
\* the nine calls of the ledger and the user and session stores
LedgerAndAuthCalls ==
    {"add", "sell", "delete", "list", "create_user", "authenticate",
     "create_session", "validate_session", "delete_session"}

\* C25: if a backend access raises during any ledger or auth operation, the
\* operation returns a result with success=false and an error message and
\* raises nothing to its caller.
C25_RaisingAccessIsReported ==
    (fault # NoDoc /\ fault.op \in LedgerAndAuthCalls) =>
        /\ ~fault.raised
        /\ ~fault.success
        /\ fault.error # ""

\* C25 witness: the sale insert raised after the two accesses before it, and
\* the call returned a failure
C25_Witness ==
    /\ fault # NoDoc
    /\ fault.op = "sell" /\ fault.access = "insert_one" /\ fault.at = 3
    /\ ~fault.raised /\ ~fault.success
    /\ last.op = "sell" /\ ~last.success /\ last.error = fault.error

\* C30: every ledger operation that returns success=false leaves the product
\* records and the sale log exactly as they were before the call, also when
\* the backend fails partway through the operation.
C30_FailureStep ==
    (last'.op \in {"add", "sell", "delete"} /\ ~last'.success) =>
        /\ products' = products
        /\ sales' = sales

C30_FailureChangesNothing == [][C30_FailureStep]_vars

\* C26: if connecting to the storage backend fails at initialization, every
\* later ledger and auth operation returns an explicit storage-unavailable
\* failure (success=false); no operation reports success while the backend
\* is unavailable.
C26_UnavailableBackendFailsEveryCall ==
    startup = "connect_failed" =>
        /\ ~last.success
        /\ listing # NoDoc => ~listing.result.success
        /\ ~ures.success
        /\ ~sres.success
\* ============================================ concurrent add properties
\* the positions of the records stored under exactly this owner and name
KeyRecords(storage, name, user_id) ==
    {i \in 1..Len(storage) : storage[i].name = name /\ OwnerOf(storage[i]) = user_id}

\* C27: two concurrent add calls for the same (owner, name) key that has no
\* record yet both succeed and, in every interleaving, leave exactly one
\* record for that key whose quantity is the sum of the two added quantities.
C27_ConcurrentAddsMerge ==
    ( /\ pc[1] = "done" /\ pc[2] = "done"
      /\ call[1].op = "add" /\ call[2].op = "add"
      /\ call[1].name = call[2].name /\ call[1].user_id = call[2].user_id
      /\ KeyIndex(products0, call[1].name, call[1].user_id) = 0 )
    => /\ res[1].success /\ res[2].success
       /\ \E i \in 1..Len(products) :
             /\ KeyRecords(products, call[1].name, call[1].user_id) = {i}
             /\ products[i].quantity = call[1].quantity + call[2].quantity

\* C29: a concurrent add(k, a) and delete(k, q) on an existing key k never
\* loses the add: in every interleaving in which both report success, the
\* stored quantity afterwards equals original + a - q, and the record is
\* present whenever that value is greater than 0.
C29_ConcurrentAddSurvivesDelete ==
    \A a \in Procs : \A d \in Procs \ {a} :
        LET k == KeyIndex(products0, call[a].name, call[a].user_id)
            expected == products0[k].quantity + call[a].quantity - call[d].quantity
        IN
        ( /\ pc[a] = "done" /\ pc[d] = "done"
          /\ call[a].op = "add" /\ call[d].op = "delete"
          /\ call[a].name = call[d].name /\ call[a].user_id = call[d].user_id
          /\ k # 0
          /\ res[a].success /\ res[d].success )
        => IF expected > 0
           THEN \E i \in 1..Len(products) :
                   /\ Addresses(products[i], call[a].name, call[a].user_id)
                   /\ products[i].quantity = expected
           ELSE \A i \in 1..Len(products) :
                   Addresses(products[i], call[a].name, call[a].user_id) =>
                       products[i].quantity = 0
\* ========================================================= flow properties
\* the request before was a successful 'Add n P' command sent with the token
\* of a session that a login created, and this request is a listing sent
\* with the same token
ListingAfterAdd(token) ==
    /\ issued[token] # NoDoc
    /\ req.endpoint = "command" /\ req.token = token
    /\ req.ledger = "add" /\ req.status = 200
    /\ req'.endpoint = "inventory" /\ req'.token = token

\* C28: after a user logs in and an 'Add n P' command sent to the command
\* endpoint with that session's bearer token succeeds, an inventory listing
\* requested with the same token succeeds and contains product P.
C28_ListingStep ==
    \A token \in Tokens :
        ListingAfterAdd(token) =>
            LET listed == get_inventory(backend, products, req'.owner).products IN
            /\ req'.status = 200
            /\ \E i \in 1..Len(listed) :
                  /\ listed[i].name = last.name
                  /\ listed[i].quantity >= last.quantity

RECURSIVE SoldQuantity(_, _, _)
\* the sum of the quantities of the Sale records of a key
SoldQuantity(log, name, user_id) ==
    IF log = <<>> THEN 0
    ELSE (IF Head(log).name = name /\ OwnerOf(Head(log)) = user_id
          THEN Head(log).quantity ELSE 0)
         + SoldQuantity(Tail(log), name, user_id)

\* the stored quantity of a key, 0 when there is no record
StoredQuantity(storage, name, user_id) ==
    IF KeyIndex(storage, name, user_id) = 0 THEN 0
    ELSE storage[KeyIndex(storage, name, user_id)].quantity

\* C31: with calls executed one at a time within a single owner scope, for
\* every key the stored quantity (0 when there is no record) equals the total
\* of successfully added quantities minus the total of successfully sold and
\* deleted quantities, and the sum of the quantities in that key's Sale
\* records equals the total successfully sold.
C31_QuantityIsAddedMinusReduced ==
    \A name \in Names :
        /\ StoredQuantity(products, name, tally.scope) =
              tally.count[name].added - tally.count[name].sold - tally.count[name].deleted
        /\ SoldQuantity(sales, name, tally.scope) = tally.count[name].sold

\* C31 witness: units were added, sold and deleted and some are still stored
C31_Witness ==
    \E name \in Names :
        /\ tally.count[name].added >= 3
        /\ tally.count[name].sold >= 1
        /\ tally.count[name].deleted >= 1
        /\ StoredQuantity(products, name, tally.scope) >= 1
\* ========================================================= frame properties
\* the records that carry an owner id, in storage order
OwnedRecords(storage) == SelectSeq(storage, LAMBDA doc : "user_id" \in DOMAIN doc)

\* C32: a ledger operation called with no owner never modifies or removes a
\* product record that carries an owner id: add, sell and delete without an
\* owner only touch records that have no owner.
C32_NoOwnerStep ==
    (last'.op \in {"add", "sell", "delete"} /\ last'.user_id = None) =>
        OwnedRecords(products') = OwnedRecords(products)

C32_NoOwnerCallsSpareOwnedRecords == [][C32_NoOwnerStep]_vars
\* the session records other than the one of this token, in storage order
OtherSessions(storage, token) ==
    SelectSeq(storage, LAMBDA session : session.session_token # token)

\* C33: deleting one session leaves every other session unchanged: when a
\* user holds several sessions from several logins, delete_session on one
\* token removes only that record, and validate_session on the user's other
\* unexpired tokens still succeeds.
C33_DeleteOtherStep ==
    (sres' # sres /\ sres'.op = "delete") =>
        /\ OtherSessions(sessions', sres'.token) = OtherSessions(sessions, sres'.token)
        /\ \A token \in Tokens \ {sres'.token} :
              validate_result(sessions', token) = validate_result(sessions, token)

C33_DeleteLeavesOtherSessions == [][C33_DeleteOtherStep]_vars

\* C33 witness: one of a user's two sessions has been deleted and the other
\* one has been validated with success afterwards
C33_Witness ==
    \E gone \in deleted : \E kept \in Tokens \ {gone} :
        /\ issued[kept] # NoDoc
        /\ issued[kept].user_id = issued[gone].user_id
        /\ find_one(sessions, [session_token |-> gone]) = NoDoc
        /\ sres.op = "validate" /\ sres.token = kept /\ sres.success

\* C34: validate_session never changes the session store: a session's
\* expires_at, user_id and is_active are fixed at creation and are the same
\* after any number of successful or failed validations.
C34_ValidateStep ==
    /\ (sres' # sres /\ sres'.op = "validate") => sessions' = sessions
    /\ \A i \in 1..Len(sessions') :
          LET created == issued'[sessions'[i].session_token] IN
          /\ sessions'[i].expires_at = created.created_at + SessionTTL
          /\ sessions'[i].user_id = created.user_id
          /\ sessions'[i].is_active

C34_ValidateChangesNothing == [][C34_ValidateStep]_vars

\* C34 witness: a validation has failed for expiry and the session is still
\* stored as it was created
C34_Witness ==
    /\ sres.op = "validate" /\ sres.error = "Session has expired"
    /\ \E i \in 1..Len(sessions) :
          /\ sessions[i].session_token = sres.token
          /\ sessions[i].expires_at = issued[sres.token].created_at + SessionTTL
          /\ sessions[i].expires_at < now
\* ------------------------------------------------------ save-text properties
\* C35: a valid command text posted to the save-text endpoint with a valid
\* session is applied to the ledger (add, sell or delete as parsed) under the
\* session's user id
C35_SaveTextAppliesCommand ==
    (req.endpoint = "save-text" /\ req.authed /\ Parsed[req.text].ok) =>
        /\ req.ledger = Parsed[req.text].action
        /\ req.owner = req.user
\* ------------------------------------------------ delete endpoint properties
\* the records of storage whose name equals name ignoring case
SameNameIgnoringCase(storage, name) ==
    {i \in 1..Len(storage) : lower(storage[i].name) = lower(name)}

\* C36: a delete request without a quantity, for a name that equals a stored
\* product's name ignoring case, deletes the product's whole stock and
\* removes its record
C36_WholeStockStep ==
    \A token \in Tokens \cup {None}, name \in RequestNames :
        (/\ delete_inventory_item(token, name, FALSE, 0)
         /\ SameNameIgnoringCase(products, name) # {}) =>
            /\ req'.status = 200
            /\ SameNameIgnoringCase(products', name) = {}
C36_OmittedQuantityDeletesProduct == [][C36_WholeStockStep]_vars
\* ----------------------------------------------- import merging properties
\* the stored records whose name differs from name and has the same
\* normalized form
StoredUnderOtherName(storage, name) ==
    {k \in 1..Len(storage) :
        /\ storage[k].name # name
        /\ normalize_product_name(storage[k].name) = normalize_product_name(name)}

\* C37: a valid import row whose name has the normalized form of a product
\* stored under a different name is merged into that record, and the import
\* creates no additional product record
C37_MergedStep ==
    ImportedBatch =>
        \A i \in ValidRows(upload) :
            LET row == ProcessedRows(upload)[i]
                stored == StoredUnderOtherName(products, row.name)
            IN  stored # {} =>
                    /\ Len(products') = Len(products)
                    /\ \E k \in stored :
                          products'[k].quantity >= products[k].quantity + row.quantity
C37_SameNormalizedFormMerges == [][C37_MergedStep]_vars

\* the j-th invalid row of the batch, counting the processed rows from 1
NthInvalidRow(file, j) ==
    CHOOSE k \in InvalidRows(file) :
        Cardinality({m \in InvalidRows(file) : m <= k}) = j

\* C38: the error recorded for the k-th data row of a batch carries row
\* number k
C38_ErrorRowStep ==
    ImportedBatch =>
        /\ Len(ires'.errors) <= Cardinality(InvalidRows(upload))
        /\ \A j \in 1..Len(ires'.errors) :
              ires'.errors[j].row = NthInvalidRow(upload, j)
C38_ErrorCarriesRowNumber == [][C38_ErrorRowStep]_vars
\* ---------------------------------------------- storage contract properties
\* C39: every Ledger, Auth and Session call returns on the in-memory store
\* what it returns on the document store holding the same documents, and
\* leaves the same documents: listing products, the username-or-email lookup
\* of create_user and authenticate_user, delete_session, add_product
C39_ListingStep ==
    listing' # listing =>
        listing'.result = get_inventory("mongo", products, listing'.user_id)

C39_LookupStep ==
    /\ (ures' # ures /\ ures'.op = "authenticate") =>
          ures' = authenticate_user_result("mongo", users, ures'.id, ures'.password)
    /\ (ures' # ures /\ ures'.op = "create") =>
          \E salt \in Salts :
              LET result == create_user_result("mongo", users, ures'.username,
                                               ures'.email, ures'.password, salt)
              IN  /\ ures' = result
                  /\ users' = IF result.success
                              THEN Append(users, user_data(users, ures'.username,
                                                 ures'.email, ures'.password, salt))
                              ELSE users

C39_DeleteSessionStep ==
    (sres' # sres /\ sres'.op = "delete") =>
        /\ sres'.success = (find_one(sessions, [session_token |-> sres'.token]) # NoDoc)
        /\ sessions' = delete_one(sessions, [session_token |-> sres'.token])

C39_AddStep ==
    (last' # last /\ last'.op = "add") =>
        /\ last' = add_result("mongo", products, last'.name, last'.quantity, last'.user_id)
        /\ products' = add_products("mongo", products, last'.name, last'.quantity,
                                    last'.user_id)

C39_SameAsDocumentStore ==
    [][C39_ListingStep /\ C39_LookupStep /\ C39_DeleteSessionStep /\ C39_AddStep]_vars
\* ======================================================= gating properties
\* C8: every ledger-facing entry point performs its ledger call only after
\* validate_session succeeded for the request's token and passes that
\* session's user_id as the owner; a request with no token or with an
\* invalid or expired token never reads or changes the ledger.
C8_LedgerCallsAreGated ==
    (req.ledger # "none") =>
        /\ req.authed
        /\ req.token # None
        /\ req.owner = req.user
====
